---------------------------- MODULE Spec2Model ----------------------------
(***************************************************************************)
(* A model of oslo.versionedobjects' field/coercion engine (fields.py) and *)
(* of the object version checker (fixture.py).                             *)
(*                                                                         *)
(* Python values are tagged records [k |-> kind, v |-> payload]; text is a *)
(* sequence of one-character strings so that formatting and parsing are    *)
(* computed, not assumed.                                                  *)
(***************************************************************************)
EXTENDS Integers, Sequences, FiniteSets, TLC

VARIABLES
    \* ---- ObjectVersionChecker.get_dependency_tree (fixture.py) ----
    obj_fields,   \* registry: schema name -> sequence of field descriptors
    tree,         \* the dependency tree being built
    stack,        \* call stack of _get_dependencies frames
    todo,         \* schema names the outer loop has not visited yet
    dpc,          \* "run" | "done" | "RecursionError"
    \* ---- Field.coerce and the objects it hands out (fields.py) ----
    cur_field,    \* the Field under test: [type, nullable, default]
    heap,         \* mutable objects by address: [cls, items]
    returned,     \* what the calls coerce(obj, attr, None) returned, in order
    last,         \* the last call: [n, muts, attr, arg, res, deep]
    default_snapshot, \* the heap as the Field was configured
    n_mut,        \* in-place changes of returned values so far
    \* ---- one coercing container and the calls made on it (fields.py) ----
    c_kind,       \* "CoercedList" | "CoercedDict" | "CoercedSet"
    c_self,       \* the container: [coercing, element_type, field, items]
    c_prev,       \* its items before the last call
    c_op,         \* the last call: [name, at, elems, ok, val]
    \* ---- one field type and a value taken through it (fields.py) ----
    ty_pc,        \* "new" | "constructed" | "coerced" | "primitive" |
                  \* "concrete", or the error of the constructor
    ty_type,      \* the type: [cls, p]
    ty_value,     \* the value given to coerce
    ty_coerced,   \* what coerce returned or raised
    ty_primitive, \* what to_primitive returned
    ty_concrete,  \* what from_primitive returned or raised
    \* ---- ObjectVersionChecker.get_hashes / test_hashes (fixture.py) ----
    obj_classes,     \* registry: schema name -> [VERSION, fields, methods,
                     \* child_versions]
    expected_hashes, \* the stored baseline: schema name -> fingerprint
    fingerprints,    \* what get_hashes computed
    hash_report,     \* what test_hashes returned: [expected, actual]
    hpc,             \* "new" | "hashed" | "tested"
    \* ---- ObjectVersionChecker.test_relationships_in_order ----
    obj_relationships, \* schema name -> field -> sequence of
                       \* <<my_version, child_version>>
    rel_result,      \* what the call returned or raised
    rpc              \* "new" | "done"

depVars == <<obj_fields, tree, stack, todo, dpc>>
fldVars == <<cur_field, heap, returned, last, default_snapshot, n_mut>>

collVars == <<c_kind, c_self, c_prev, c_op>>

typeVars == <<ty_pc, ty_type, ty_value, ty_coerced, ty_primitive, ty_concrete>>

hashVars == <<obj_classes, expected_hashes, fingerprints, hash_report, hpc>>

relVars == <<obj_relationships, rel_result, rpc>>

nonDepVars == <<fldVars, collVars, typeVars, hashVars, relVars>>
nonFldVars == <<depVars, collVars, typeVars, hashVars, relVars>>
nonCollVars == <<depVars, fldVars, typeVars, hashVars, relVars>>
nonTypeVars == <<depVars, fldVars, collVars, hashVars, relVars>>
nonHashVars == <<depVars, fldVars, collVars, typeVars, relVars>>
nonRelVars == <<depVars, fldVars, collVars, typeVars, hashVars>>

vars == <<obj_fields, tree, stack, todo, dpc,
          cur_field, heap, returned, last, default_snapshot, n_mut,
          c_kind, c_self, c_prev, c_op,
          ty_pc, ty_type, ty_value, ty_coerced, ty_primitive, ty_concrete,
          obj_classes, expected_hashes, fingerprints, hash_report, hpc,
          obj_relationships, rel_result, rpc>>

\* the parts of the state a specification does not use
DepIdle ==
    /\ obj_fields = <<>> /\ tree = <<>> /\ stack = <<>> /\ todo = {}
    /\ dpc = "idle"

FldIdle ==
    /\ cur_field = <<>> /\ heap = <<>> /\ returned = <<>> /\ last = <<>>
    /\ default_snapshot = <<>> /\ n_mut = 0

CollIdle ==
    c_kind = "idle" /\ c_self = <<>> /\ c_prev = <<>> /\ c_op = <<>>

TypeIdle ==
    /\ ty_pc = "idle" /\ ty_type = <<>> /\ ty_value = <<>>
    /\ ty_coerced = <<>> /\ ty_primitive = <<>> /\ ty_concrete = <<>>

HashIdle ==
    /\ obj_classes = <<>> /\ expected_hashes = <<>> /\ fingerprints = <<>>
    /\ hash_report = <<>> /\ hpc = "idle"

RelIdle ==
    obj_relationships = <<>> /\ rel_result = <<>> /\ rpc = "idle"

(***************************************************************************)
(* Bounds                                                                  *)
(***************************************************************************)
\* total number of fields declared in the registry
MaxTotalFields == 3
\* depth at which the interpreter gives up on a recursion (RecursionError)
MaxDepth == 5

(***************************************************************************)
(* Python values and text                                                  *)
(***************************************************************************)
NoneV == [k |-> "none", v |-> 0]
IntV(n) == [k |-> "int", v |-> n]
BoolV(b) == [k |-> "bool", v |-> b]
StrV(s) == [k |-> "str", v |-> s]
ListV(items) == [k |-> "list", v |-> items]
\* a reference to a mutable object of the heap
RefV(a) == [k |-> "ref", v |-> a]
\* fields.UnspecifiedDefault
UnspecifiedDefault == [k |-> "UnspecifiedDefault", v |-> 0]

\* a float with an integral value
FloatV(n) == [k |-> "float", v |-> n]
\* a datetime: the wall-clock reading, and the UTC offset if it has one
DateTimeV(sec, aware, off) ==
    [k |-> "datetime", v |-> [sec |-> sec, aware |-> aware, off |-> off]]
\* netaddr.IPAddress, netaddr.IPNetwork
IPAddressV(version, n) ==
    [k |-> "IPAddress", v |-> [version |-> version, n |-> n]]
IPNetworkV(version, n, prefixlen) ==
    [k |-> "IPNetwork",
     v |-> [version |-> version, n |-> n, prefixlen |-> prefixlen]]

\* bool(value) is False
IsFalsy(value) ==
    \/ value.k = "none"
    \/ value.k \in {"int", "float"} /\ value.v = 0
    \/ value.k = "bool" /\ ~value.v
    \/ value.k \in {"str", "list"} /\ value.v = <<>>

\* a == b for two Python values: numbers compare by value whatever their
\* type, datetimes with an offset by the instant they denote
IsNumber(value) == value.k \in {"int", "bool", "float"}
NumberOf(value) ==
    IF value.k = "bool" THEN (IF value.v THEN 1 ELSE 0) ELSE value.v
PyEq(a, b) ==
    IF IsNumber(a) /\ IsNumber(b) THEN NumberOf(a) = NumberOf(b)
    ELSE IF a.k # b.k THEN FALSE
    ELSE IF a.k = "datetime" /\ a.v.aware /\ b.v.aware
      THEN a.v.sec - a.v.off = b.v.sec - b.v.off
    ELSE a.v = b.v

\* type(value).__name__
TypeName(value) ==
    CASE value.k = "none" -> "NoneType"
      [] OTHER -> value.k

Ok(v) == [ok |-> TRUE, val |-> v]
\* a raised exception: its class, its message template, and the attribute
\* name and actual type name formatted into the message (<<>>, "": none)
Raise(exc, msg, attr, actual) ==
    [ok |-> FALSE,
     val |-> [exc |-> exc, msg |-> msg, attr |-> attr, actual |-> actual]]

DigitChars == <<"0", "1", "2", "3", "4", "5", "6", "7", "8", "9">>

IsDigit(c) == \E d \in 1..Len(DigitChars) : DigitChars[d] = c
DigitValue(c) == (CHOOSE d \in 1..Len(DigitChars) : DigitChars[d] = c) - 1

\* '%i' % n, six.text_type(n) for an int
RECURSIVE Decimal(_)
Decimal(n) ==
    IF n < 0 THEN <<"-">> \o Decimal(0 - n)
    ELSE IF n < Len(DigitChars) THEN <<DigitChars[n + 1]>>
    ELSE Decimal(n \div Len(DigitChars)) \o <<DigitChars[(n % Len(DigitChars)) + 1]>>

\* int(text) for a text of decimal digits with an optional sign
RECURSIVE DigitsValue(_, _)
DigitsValue(s, acc) ==
    IF s = <<>> THEN acc
    ELSE DigitsValue(Tail(s), acc * Len(DigitChars) + DigitValue(Head(s)))

IsDecimalText(s) ==
    LET body == IF s # <<>> /\ Head(s) \in {"-", "+"} THEN Tail(s) ELSE s
    IN body # <<>> /\ \A i \in 1..Len(body) : IsDigit(body[i])

ParseDecimal(s) ==
    IF Head(s) = "-" THEN 0 - DigitsValue(Tail(s), 0)
    ELSE IF Head(s) = "+" THEN DigitsValue(Tail(s), 0)
    ELSE DigitsValue(s, 0)

\* six.text_type(value) / str(value) / '%s' % value
PyStr(value) ==
    CASE value.k = "str" -> value.v
      [] value.k = "int" -> Decimal(value.v)
      [] value.k = "bool" ->
           IF value.v THEN <<"T", "r", "u", "e">>
                      ELSE <<"F", "a", "l", "s", "e">>
      [] value.k = "none" -> <<"N", "o", "n", "e">>
      [] value.k = "float" -> Decimal(value.v) \o <<".", "0">>
      [] value.k = "datetime" ->
           Decimal(value.v.sec)
             \o (IF ~value.v.aware THEN <<>>
                 ELSE IF value.v.off < 0
                   THEN <<"-">> \o Decimal(0 - value.v.off)
                   ELSE <<"+">> \o Decimal(value.v.off))
      [] OTHER -> <<"<", "?", ">">>

(***************************************************************************)
(* Field types (fields.py)                                                 *)
(***************************************************************************)
\* A type descriptor is [cls |-> class name, p |-> constructor state].
FieldTypeT == [cls |-> "FieldType", p |-> 0]
StringT == [cls |-> "String", p |-> 0]
IntegerT == [cls |-> "Integer", p |-> 0]
\* CompoundFieldType.__init__: self._element_type = Field(element_type, ...)
ListT(element_field) == [cls |-> "List", p |-> element_field]

\* Field.__init__
Field(type, nullable, default) ==
    [type |-> type, nullable |-> nullable, default |-> default]

RECURSIVE Field_coerce(_, _, _)

\* FieldType.coerce: return value
FieldType_coerce(attr, value) == Ok(value)

\* String.coerce
String_coerce(attr, value) ==
    IF value.k \in {"int", "bool", "float", "str", "datetime"}
      THEN Ok(StrV(PyStr(value)))
      ELSE Raise("ValueError", "A string is required in field %(attr)s, not a %(type)s",
                 attr, TypeName(value))

\* Integer.coerce: return int(value)
Integer_coerce(attr, value) ==
    CASE value.k = "int" -> Ok(value)
      [] value.k = "bool" -> Ok(IntV(IF value.v THEN 1 ELSE 0))
      [] value.k = "float" -> Ok(IntV(value.v))
      [] value.k = "str" ->
           IF IsDecimalText(value.v)
             THEN Ok(IntV(ParseDecimal(value.v)))
             ELSE Raise("ValueError", "invalid literal for int()", <<>>, "")
      [] OTHER -> Raise("TypeError", "int() argument must be a string or a number",
                        <<>>, TypeName(value))

\* Float.coerce: return float(value)
Float_coerce(attr, value) ==
    CASE IsNumber(value) -> Ok(FloatV(NumberOf(value)))
      [] value.k = "str" ->
           IF IsDecimalText(value.v)
             THEN Ok(FloatV(ParseDecimal(value.v)))
             ELSE Raise("ValueError", "could not convert string to float",
                        <<>>, "")
      [] OTHER -> Raise("TypeError", "float() argument must be a string or a number",
                        <<>>, TypeName(value))

\* Boolean.coerce: return bool(value)
Boolean_coerce(attr, value) == Ok(BoolV(~IsFalsy(value)))

\* str.lower() on the letters that occur
UpperChars == <<"A", "B", "C", "D", "E", "F", "T", "Z">>
LowerChars == <<"a", "b", "c", "d", "e", "f", "t", "z">>
LowerChar(c) ==
    IF \E i \in DOMAIN UpperChars : UpperChars[i] = c
      THEN LowerChars[CHOOSE i \in DOMAIN UpperChars : UpperChars[i] = c]
      ELSE c
Lower(s) == [i \in DOMAIN s |-> LowerChar(s[i])]

\* str.replace(old, new) for one-character old and new
Replace(s, old, new) == [i \in DOMAIN s |-> IF s[i] = old THEN new ELSE s[i]]

\* strutils.TRUE_STRINGS
TrueStrings ==
    {<<"1">>, <<"t">>, <<"t", "r", "u", "e">>, <<"o", "n">>, <<"y">>,
     <<"y", "e", "s">>}

\* strutils.bool_from_string(value), not strict: what is no true string is
\* False
bool_from_string(value) ==
    IF value.k = "bool" THEN value
    ELSE BoolV(Lower(PyStr(value)) \in TrueStrings)

\* FlexibleBoolean.coerce
FlexibleBoolean_coerce(attr, value) == Ok(bool_from_string(value))

\* UUID.coerce: return str(value)
UUID_coerce(attr, value) == Ok(StrV(PyStr(value)))

\* versionpredicate.VersionPredicate('check (%s)' % value) is accepted: a
\* comparison operator followed by a version number
ComparisonOperators ==
    {<<"<">>, <<">">>, <<"=", "=">>, <<"<", "=">>, <<">", "=">>, <<"!", "=">>}
IsVersionPredicate(s) ==
    \E n \in 1..2 :
       /\ Len(s) > n
       /\ SubSeq(s, 1, n) \in ComparisonOperators
       /\ \A i \in (n + 1)..Len(s) : IsDigit(s[i])

\* VersionPredicate.coerce: the value itself is returned
VersionPredicate_coerce(attr, value) ==
    IF IsVersionPredicate(PyStr(value)) THEN Ok(value)
    ELSE Raise("ValueError",
               "Version %(val)s is not a valid predicate in field %(attr)s",
               attr, "")

\* value in self._valid_values
PyIn(value, valid_values) ==
    \E i \in DOMAIN valid_values : PyEq(value, valid_values[i])

\* Enum.__init__
Enum_init(valid_values) ==
    IF valid_values = <<>>
      THEN Raise("EnumRequiresValidValuesError", "", <<>>, "")
    ELSE IF \E i \in DOMAIN valid_values :
              ~String_coerce(<<"i", "n", "i", "t">>, valid_values[i]).ok
      THEN Raise("EnumValidValuesInvalidError", "", <<>>, "")
    ELSE Ok([cls |-> "Enum", p |-> valid_values])

\* Enum.coerce
Enum_coerce(type, attr, value) ==
    IF ~PyIn(value, type.p)
      THEN Raise("ValueError", "Field value %s is invalid", <<>>, "")
      ELSE String_coerce(attr, value)

\* MACAddress._REGEX: [0-9a-f]{2}(:[0-9a-f]{2}){5}$
HexChars == DigitChars \o <<"a", "b", "c", "d", "e", "f">>
IsHex(c) == \E i \in DOMAIN HexChars : HexChars[i] = c
\* the {2} and the {5} of the pattern
REGEX_Digits == 2
REGEX_Repeat == 5
REGEX_Length == REGEX_Digits + REGEX_Repeat * (1 + REGEX_Digits)

\* [0-9a-f]{2} at position q
REGEX_group(s, q) ==
    \A i \in q..(q + REGEX_Digits - 1) : i <= Len(s) /\ IsHex(s[i])

\* "$": at the end of the text, or before a newline that ends it
REGEX_dollar(s, q) ==
    \/ q = Len(s) + 1
    \/ q = Len(s) /\ s[q] = "\n"

\* MACAddress._REGEX.match(s): the pattern from the first character on
REGEX_match(s) ==
    /\ Len(s) >= REGEX_Length
    /\ REGEX_group(s, 1)
    /\ \A g \in 1..REGEX_Repeat :
          /\ s[g * (1 + REGEX_Digits)] = ":"
          /\ REGEX_group(s, g * (1 + REGEX_Digits) + 1)
    /\ REGEX_dollar(s, REGEX_Length + 1)

\* value.lower().replace('-', ':')
Lowered(s) == Replace(Lower(s), "-", ":")

\* MACAddress.coerce
MACAddress_coerce(attr, value) ==
    IF value.k = "str" /\ REGEX_match(Lowered(value.v))
      THEN Ok(StrV(Lowered(value.v)))
      ELSE Raise("ValueError", "Malformed MAC %s", <<>>, "")

\* _utils.isotime(at): the wall-clock reading in ISO 8601 with the offset,
\* "Z" for UTC and for a datetime without offset
isotime(at) ==
    <<"T">> \o Decimal(at.v.sec)
      \o (IF ~at.v.aware \/ at.v.off = 0 THEN <<"Z">>
          ELSE IF at.v.off < 0 THEN <<"-">> \o Decimal(0 - at.v.off)
          ELSE <<"+">> \o Decimal(at.v.off))

\* the text from position q on
From(s, q) == SubSeq(s, q, Len(s))

\* the position of the offset designator in an ISO 8601 text, or past its end
DesignatorAt(s) ==
    IF \E q \in 2..Len(s) : s[q] \in {"Z", "+", "-"}
      THEN CHOOSE q \in 2..Len(s) :
             /\ s[q] \in {"Z", "+", "-"}
             /\ \A o \in 2..(q - 1) : s[o] \notin {"Z", "+", "-"}
      ELSE Len(s) + 1

IsDigits(s) == s # <<>> /\ \A i \in DOMAIN s : IsDigit(s[i])

\* timeutils.parse_isotime(timestr): a datetime with an offset, UTC if the
\* text names none
parse_isotime(timestr) ==
    IF timestr.k # "str" \/ timestr.v = <<>> \/ Head(timestr.v) # "T"
         \/ ~IsDigits(SubSeq(timestr.v, 2, DesignatorAt(timestr.v) - 1))
      THEN Raise("ValueError", "Unable to parse date string", <<>>, "")
    ELSE IF From(timestr.v, DesignatorAt(timestr.v)) \in {<<>>, <<"Z">>}
      THEN Ok(DateTimeV(DigitsValue(SubSeq(timestr.v, 2,
                                           DesignatorAt(timestr.v) - 1), 0),
                        TRUE, 0))
    ELSE IF /\ timestr.v[DesignatorAt(timestr.v)] \in {"+", "-"}
            /\ IsDigits(From(timestr.v, DesignatorAt(timestr.v) + 1))
      THEN Ok(DateTimeV(DigitsValue(SubSeq(timestr.v, 2,
                                           DesignatorAt(timestr.v) - 1), 0),
                        TRUE,
                        ParseDecimal(From(timestr.v, DesignatorAt(timestr.v)))))
    ELSE Raise("ValueError", "Unable to parse date string", <<>>, "")

\* DateTime.__init__
DateTimeT(tzinfo_aware) == [cls |-> "DateTime", p |-> tzinfo_aware]

\* DateTime.coerce that leaves the offset alone on a timezone-naive field
DateTime_tzinfo_KeepOffset(type, value) ==
    IF ~value.v.aware /\ type.p THEN Ok(DateTimeV(value.v.sec, TRUE, 0))
    ELSE Ok(value)

\* DateTime.coerce from "if value.utcoffset() is None" on
DateTime_tzinfo(type, value) ==
    IF ~value.v.aware /\ type.p THEN Ok(DateTimeV(value.v.sec, TRUE, 0))
    ELSE IF ~type.p THEN Ok(DateTimeV(value.v.sec, FALSE, 0))
    ELSE Ok(value)

\* value = timeutils.parse_isotime(value), which may raise
DateTime_parsed(type, r) == IF ~r.ok THEN r ELSE DateTime_tzinfo(type, r.val)

\* DateTime.coerce
DateTime_coerce(type, attr, value) ==
    IF value.k = "str" THEN DateTime_parsed(type, parse_isotime(value))
    ELSE IF value.k # "datetime"
      THEN Raise("ValueError",
                 "A datetime.datetime is required in field %(attr)s, not a %(type)s",
                 attr, TypeName(value))
    ELSE DateTime_tzinfo(type, value)

\* mutant: the parsed text is returned without going through coerce
DateTime_from_primitive_NoCoerce(type, attr, value) == parse_isotime(value)

\* DateTime.from_primitive
DateTime_from_primitive(type, attr, value) ==
    DateTime_parsed(type, parse_isotime(value))

\* DateTime.to_primitive
DateTime_to_primitive(attr, value) == StrV(isotime(value))

\* str(netaddr.IPAddress) for the addresses 0.0.0.n and ::n
IPv4Prefix == <<"0", ".", "0", ".", "0", ".">>
IPv6Prefix == <<":", ":">>
IPv4 == 4
IPv6 == 6
IPv4Max == 255
IPv6Max == 9
IPv4Bits == 32
IPv6Bits == 128

IPAddress_str(ip) ==
    (IF ip.version = IPv4 THEN IPv4Prefix ELSE IPv6Prefix) \o Decimal(ip.n)

HasPrefix(s, prefix) ==
    Len(s) > Len(prefix) /\ SubSeq(s, 1, Len(prefix)) = prefix

\* netaddr.IPAddress(addr) for a text, an int or an IPAddress
netaddr_IPAddress(addr) ==
    CASE addr.k = "IPAddress" -> Ok(addr)
      [] addr.k = "int" /\ addr.v >= 0 -> Ok(IPAddressV(IPv4, addr.v))
      [] /\ addr.k = "str" /\ HasPrefix(addr.v, IPv4Prefix)
         /\ IsDigits(From(addr.v, Len(IPv4Prefix) + 1))
         /\ DigitsValue(From(addr.v, Len(IPv4Prefix) + 1), 0) <= IPv4Max ->
           Ok(IPAddressV(IPv4,
                         DigitsValue(From(addr.v, Len(IPv4Prefix) + 1), 0)))
      [] /\ addr.k = "str" /\ HasPrefix(addr.v, IPv6Prefix)
         /\ IsDigits(From(addr.v, Len(IPv6Prefix) + 1))
         /\ DigitsValue(From(addr.v, Len(IPv6Prefix) + 1), 0) \in 1..IPv6Max ->
           Ok(IPAddressV(IPv6,
                         DigitsValue(From(addr.v, Len(IPv6Prefix) + 1), 0)))
      [] OTHER -> Raise("ValueError", "AddrFormatError", <<>>, "")

\* the position of "/" in a text, or past its end
SlashAt(s) ==
    IF \E q \in DOMAIN s : s[q] = "/"
      THEN CHOOSE q \in DOMAIN s : s[q] = "/" /\ \A o \in 1..(q - 1) : s[o] # "/"
      ELSE Len(s) + 1

BitsOf(version) == IF version = IPv4 THEN IPv4Bits ELSE IPv6Bits

\* the network of an address and the text after "/"
WithPrefixLen(r, prefix) ==
    IF ~r.ok THEN r
    ELSE IF prefix = <<>>
      THEN Ok(IPNetworkV(r.val.v.version, r.val.v.n, BitsOf(r.val.v.version)))
    ELSE IF IsDigits(prefix) /\ DigitsValue(prefix, 0) <= BitsOf(r.val.v.version)
      THEN Ok(IPNetworkV(r.val.v.version, r.val.v.n, DigitsValue(prefix, 0)))
    ELSE Raise("ValueError", "AddrFormatError", <<>>, "")

\* netaddr.IPNetwork(addr) for a text or an IPNetwork
netaddr_IPNetwork(addr) ==
    CASE addr.k = "IPNetwork" -> Ok(addr)
      [] addr.k = "str" /\ SlashAt(addr.v) # Len(addr.v) ->
           WithPrefixLen(
             netaddr_IPAddress(StrV(SubSeq(addr.v, 1, SlashAt(addr.v) - 1))),
             From(addr.v, SlashAt(addr.v) + 1))
      [] OTHER -> Raise("ValueError", "AddrFormatError", <<>>, "")

\* str(netaddr.IPNetwork)
IPNetwork_str(net) ==
    IPAddress_str(net) \o <<"/">> \o Decimal(net.prefixlen)

\* netaddr.IPNetwork(addr, version=version)
OfVersion(r, version) ==
    IF r.ok /\ r.val.v.version # version
      THEN Raise("ValueError", "AddrFormatError", <<>>, "")
      ELSE r

\* IPAddress.coerce
IPAddress_coerce(attr, value) == netaddr_IPAddress(value)

\* IPV4Address.coerce, IPV6Address.coerce: result.version is checked
IPVersionAddress_coerce(version, attr, result) ==
    IF ~result.ok THEN result
    ELSE IF result.val.v.version # version
      THEN Raise("ValueError",
                 "Network \"%(val)s\" is not valid in field %(attr)s", attr, "")
    ELSE result

IPV4Address_coerce(attr, value) ==
    IPVersionAddress_coerce(IPv4, attr, IPAddress_coerce(attr, value))

IPV6Address_coerce(attr, value) ==
    IPVersionAddress_coerce(IPv6, attr, IPAddress_coerce(attr, value))

\* IPNetwork.coerce, IPV4Network.coerce, IPV6Network.coerce
IPNetwork_coerce(attr, value) == netaddr_IPNetwork(value)
IPV4Network_coerce(attr, value) == OfVersion(netaddr_IPNetwork(value), IPv4)
IPV6Network_coerce(attr, value) == OfVersion(netaddr_IPNetwork(value), IPv6)

\* IPAddress.to_primitive: str(value)
IPAddress_to_primitive(attr, value) ==
    IF value.k = "IPNetwork" THEN StrV(IPNetwork_str(value.v))
    ELSE IF value.k = "IPAddress" THEN StrV(IPAddress_str(value.v))
    ELSE StrV(PyStr(value))

(***************************************************************************)
(* Coercing containers.  A container is [coercing, element_type, field,   *)
(* items]; items is a sequence (CoercedList), a function from keys         *)
(* (CoercedDict) or a set (CoercedSet).  A method leaves [ok, val, items]: *)
(* whether it returned, what it returned or raised, and the contents       *)
(* afterwards.  A result is always bound through an operator parameter.    *)
(***************************************************************************)
CoercedListV(items) == [k |-> "CoercedList", v |-> items]
\* a dict given by its (key, value) pairs in iteration order
DictV(pairs) == [k |-> "dict", v |-> pairs]
CoercedDictV(f) == [k |-> "CoercedDict", v |-> f]
\* a set given by its elements in iteration order
SetV(elements) == [k |-> "set", v |-> elements]
CoercedSetV(S) == [k |-> "CoercedSet", v |-> S]

\* CoercedCollectionMixin.__init__ followed by enable_coercing
\* CoercedCollectionMixin.__init__: a container nobody called
\* enable_coercing on
NotCoercing(items) ==
    [coercing |-> FALSE, element_type |-> NoneV, field |-> NoneV,
     items |-> items]

EnableCoercing(element_type, attr, items) ==
    [coercing |-> TRUE, element_type |-> element_type, field |-> attr,
     items |-> items]

Returns(val, items) == [ok |-> TRUE, val |-> val, items |-> items]
Raises(r, items) == [ok |-> FALSE, val |-> r.val, items |-> items]

Range(f) == {f[x] : x \in DOMAIN f}

Max(a, b) == IF a >= b THEN a ELSE b
Min(a, b) == IF a <= b THEN a ELSE b

\* "%s[%i]" % (self._field, index)
ListAttName(self, index) == self.field \o <<"[">> \o Decimal(index) \o <<"]">>

\* CoercedList._coerce_item
CoercedList_coerce_item(self, index, item) ==
    IF self.coercing
      THEN Field_coerce(self.element_type, ListAttName(self, index), item)
      ELSE Ok(item)

\* [self._coerce_item(start + index * step, item)
\*  for index, item in enumerate(y)]: the first failure is raised
Cons(r, rest) ==
    IF ~r.ok THEN r ELSE IF ~rest.ok THEN rest ELSE Ok(<<r.val>> \o rest.val)

RECURSIVE CoercedList_coerce_items(_, _, _, _, _)
CoercedList_coerce_items(self, start, step, y, index) ==
    IF index >= Len(y) THEN Ok(<<>>)
    ELSE Cons(CoercedList_coerce_item(self, start + index * step, y[index + 1]),
              CoercedList_coerce_items(self, start, step, y, index + 1))

\* list.append(x), x the argument as evaluated (a value or a raise)
list_append(items, x) ==
    IF ~x.ok THEN Raises(x, items) ELSE Returns(NoneV, Append(items, x.val))

\* list.extend(t)
list_extend(items, t) ==
    IF ~t.ok THEN Raises(t, items) ELSE Returns(NoneV, items \o t.val)

\* list.__iadd__(y): returns the list itself
list_iadd(items, y) ==
    IF ~y.ok THEN Raises(y, items)
    ELSE Returns(CoercedListV(items \o y.val), items \o y.val)

\* list.insert(i, x)
list_insert(items, i, x) ==
    IF ~x.ok THEN Raises(x, items)
    ELSE LET n == Len(items)
             pos == IF i < 0 THEN Max(i + n, 0) ELSE Min(i, n)
         IN Returns(NoneV, SubSeq(items, 1, pos) \o <<x.val>>
                            \o SubSeq(items, pos + 1, n))

\* list.__setitem__(i, y) for an integer i
list_setitem(items, i, y) ==
    IF ~y.ok THEN Raises(y, items)
    ELSE LET n == Len(items) IN
         IF i >= 0 - n /\ i < n
           THEN Returns(NoneV, [items EXCEPT ![(IF i < 0 THEN i + n ELSE i) + 1]
                                               = y.val])
           ELSE Raises(Raise("IndexError", "list assignment index out of range",
                             <<>>, ""), items)

\* slice.indices(n) for a positive step: None is NoneV, an index is IntV
SliceStart(sl, n) ==
    IF sl.start = NoneV THEN 0
    ELSE IF sl.start.v < 0 THEN Max(sl.start.v + n, 0) ELSE Min(sl.start.v, n)
SliceStop(sl, n) ==
    IF sl.stop = NoneV THEN n
    ELSE IF sl.stop.v < 0 THEN Max(sl.stop.v + n, 0) ELSE Min(sl.stop.v, n)
SliceStep(sl) == IF sl.step = NoneV THEN 1 ELSE sl.step.v
SliceLen(sl, n) ==
    IF SliceStop(sl, n) <= SliceStart(sl, n) THEN 0
    ELSE ((SliceStop(sl, n) - SliceStart(sl, n) - 1) \div SliceStep(sl)) + 1

\* list.__setitem__(slice, y)
list_setitem_slice(items, sl, y) ==
    IF ~y.ok THEN Raises(y, items)
    ELSE LET n == Len(items)
             start == SliceStart(sl, n)
             stop == SliceStop(sl, n)
             step == SliceStep(sl)
         IN IF step = 1
              THEN Returns(NoneV, SubSeq(items, 1, start) \o y.val
                                   \o SubSeq(items, Max(stop, start) + 1, n))
            ELSE IF Len(y.val) # SliceLen(sl, n)
              THEN Raises(Raise("ValueError",
                    "attempt to assign sequence of size %d to extended slice of size %d",
                    <<>>, ""), items)
              ELSE Returns(NoneV,
                     [q \in 1..n |->
                        IF q - 1 >= start /\ q - 1 < stop
                             /\ (q - 1 - start) % step = 0
                          THEN y.val[((q - 1 - start) \div step) + 1]
                          ELSE items[q]])

\* i.start or 0, i.step or 1
OrElse(x, d) == IF x = NoneV \/ x.v = 0 THEN d ELSE x.v

\* CoercedList.__setitem__
CoercedList_setitem(self, i, y) ==
    list_setitem(self.items, i, CoercedList_coerce_item(self, i, y))

CoercedList_setitem_slice(self, sl, y) ==
    list_setitem_slice(self.items, sl,
        CoercedList_coerce_items(self, OrElse(sl.start, 0), OrElse(sl.step, 1),
                                 y, 0))

\* CoercedList.append
CoercedList_append(self, x) ==
    list_append(self.items,
                CoercedList_coerce_item(self, Len(self.items) + 1, x))

\* mutant: the elements are appended as they are coerced
RECURSIVE CoercedList_extend_Incremental(_, _)
CoercedList_extend_Incremental(self, t) ==
    IF t = <<>> THEN Returns(NoneV, self.items)
    ELSE IF ~CoercedList_coerce_item(self, Len(self.items), Head(t)).ok
      THEN Raises(CoercedList_coerce_item(self, Len(self.items), Head(t)),
                  self.items)
      ELSE CoercedList_extend_Incremental(
             [self EXCEPT !.items =
                Append(@, CoercedList_coerce_item(self, Len(self.items),
                                                  Head(t)).val)],
             Tail(t))

\* CoercedList.extend
CoercedList_extend(self, t) ==
    list_extend(self.items,
                CoercedList_coerce_items(self, Len(self.items), 1, t, 0))

\* mutant: insert stores the element as given
CoercedList_insert_NoCoerce(self, i, x) ==
    list_insert(self.items, i, Ok(x))

\* CoercedList.insert
CoercedList_insert(self, i, x) ==
    list_insert(self.items, i, CoercedList_coerce_item(self, i, x))

\* CoercedList.__iadd__
CoercedList_iadd(self, y) ==
    list_iadd(self.items,
                CoercedList_coerce_items(self, Len(self.items), 1, y, 0))

\* CoercedList.__setslice__ (Python 2: l[i:j] = y with the bounds made
\* non-negative by the interpreter)
CoercedList_setslice(self, i, j, y) ==
    list_setitem_slice(self.items,
                       [start |-> IntV(i), stop |-> IntV(j), step |-> NoneV],
                       CoercedList_coerce_items(self, i, 1, y, 0))

\* "%s[%s]" % (self._field, key)
KeyAttName(self, key) == self.field \o <<"[">> \o PyStr(key) \o <<"]">>

\* CoercedDict._coerce_item that looks at the key after the element
CoercedDict_coerce_item_ElementFirst(self, key, item) ==
    IF self.coercing
         /\ ~Field_coerce(self.element_type, KeyAttName(self, key), item).ok
      THEN Field_coerce(self.element_type, KeyAttName(self, key), item)
    ELSE IF key.k # "str"
      THEN Raise("KeyTypeError",
                 "Key %(key)s must be of type %(expected)s not %(actual)s",
                 <<>>, TypeName(key))
    ELSE IF self.coercing
      THEN Field_coerce(self.element_type, KeyAttName(self, key), item)
      ELSE Ok(item)

\* CoercedDict._coerce_item
CoercedDict_coerce_item(self, key, item) ==
    IF key.k # "str"
      THEN Raise("KeyTypeError",
                 "Key %(key)s must be of type %(expected)s not %(actual)s",
                 <<>>, TypeName(key))
    ELSE IF self.coercing
      THEN Field_coerce(self.element_type, KeyAttName(self, key), item)
      ELSE Ok(item)

PairCons(key, r, rest) ==
    IF ~r.ok THEN r ELSE IF ~rest.ok THEN rest
    ELSE Ok(<<<<key, r.val>>>> \o rest.val)

\* CoercedDict._coerce_dict, d the (key, element) pairs as iterated
RECURSIVE CoercedDict_coerce_dict(_, _)
CoercedDict_coerce_dict(self, d) ==
    IF d = <<>> THEN Ok(<<>>)
    ELSE PairCons(Head(d)[1],
                  CoercedDict_coerce_item(self, Head(d)[1], Head(d)[2]),
                  CoercedDict_coerce_dict(self, Tail(d)))

DictPut(f, key, v) ==
    [x \in DOMAIN f \cup {key} |-> IF x = key THEN v ELSE f[x]]

RECURSIVE DictPutAll(_, _)
DictPutAll(f, pairs) ==
    IF pairs = <<>> THEN f
    ELSE DictPutAll(DictPut(f, Head(pairs)[1], Head(pairs)[2]), Tail(pairs))

\* dict.__setitem__(key, value)
dict_setitem(items, key, value) ==
    IF ~value.ok THEN Raises(value, items)
    ELSE Returns(NoneV, DictPut(items, key, value.val))

\* dict.update(other, **kwargs)
dict_update(items, other, kwargs) ==
    IF ~other.ok THEN Raises(other, items)
    ELSE IF ~kwargs.ok THEN Raises(kwargs, items)
    ELSE Returns(NoneV, DictPutAll(DictPutAll(items, other.val), kwargs.val))

\* dict.setdefault(key, default)
dict_setdefault(items, key, default) ==
    IF ~default.ok THEN Raises(default, items)
    ELSE IF key \in DOMAIN items THEN Returns(items[key], items)
    ELSE Returns(default.val, DictPut(items, key, default.val))

\* CoercedDict.__setitem__
CoercedDict_setitem(self, key, value) ==
    dict_setitem(self.items, key, CoercedDict_coerce_item(self, key, value))

\* CoercedDict.update; other is NoneV or a DictV, kwargs are pairs
CoercedDict_update(self, other, kwargs) ==
    IF other # NoneV
      THEN dict_update(self.items, CoercedDict_coerce_dict(self, other.v),
                       CoercedDict_coerce_dict(self, kwargs))
      ELSE dict_update(self.items, Ok(<<>>),
                       CoercedDict_coerce_dict(self, kwargs))

\* CoercedDict.setdefault
CoercedDict_setdefault(self, key, default) ==
    dict_setdefault(self.items, key,
                    CoercedDict_coerce_item(self, key, default))

\* CoercedSet._coerce_element
CoercedSet_coerce_element(self, element) ==
    IF self.coercing
      THEN Field_coerce(self.element_type, KeyAttName(self, element), element)
      ELSE Ok(element)

\* hash(value) raises TypeError
IsUnhashable(value) ==
    value.k \in {"list", "dict", "set", "CoercedList", "CoercedDict",
                 "CoercedSet"}

Unhashable(value) ==
    Raise("TypeError", "unhashable type", <<>>, TypeName(value))

\* coerced.add(self._coerce_element(element)) for each element in turn
SetCons(r, rest) ==
    IF ~r.ok THEN r
    ELSE IF IsUnhashable(r.val) THEN Unhashable(r.val)
    ELSE IF ~rest.ok THEN rest
    ELSE Ok({r.val} \cup rest.val)

\* CoercedSet._coerce_iterable, values as iterated
RECURSIVE CoercedSet_coerce_iterable(_, _)
CoercedSet_coerce_iterable(self, values) ==
    IF values = <<>> THEN Ok({})
    ELSE SetCons(CoercedSet_coerce_element(self, Head(values)),
                 CoercedSet_coerce_iterable(self, Tail(values)))

\* set.add(value)
set_add(items, value) ==
    IF ~value.ok THEN Raises(value, items)
    ELSE IF IsUnhashable(value.val) THEN Raises(Unhashable(value.val), items)
    ELSE Returns(NoneV, items \cup {value.val})

\* set.update(values)
set_update(items, values) ==
    IF ~values.ok THEN Raises(values, items)
    ELSE Returns(NoneV, items \cup values.val)

\* set.symmetric_difference_update(values)
set_symmetric_difference_update(items, values) ==
    IF ~values.ok THEN Raises(values, items)
    ELSE Returns(NoneV, (items \ values.val) \cup (values.val \ items))

\* set.__ior__(y): returns the set itself
set_ior(items, y) ==
    IF ~y.ok THEN Raises(y, items)
    ELSE Returns(CoercedSetV(items \cup y.val), items \cup y.val)

\* set.__ixor__(y): returns the set itself
set_ixor(items, y) ==
    IF ~y.ok THEN Raises(y, items)
    ELSE Returns(CoercedSetV((items \ y.val) \cup (y.val \ items)),
                 (items \ y.val) \cup (y.val \ items))

\* CoercedSet.add
CoercedSet_add(self, value) ==
    set_add(self.items, CoercedSet_coerce_element(self, value))

\* CoercedSet.update
CoercedSet_update(self, values) ==
    set_update(self.items, CoercedSet_coerce_iterable(self, values))

\* CoercedSet.symmetric_difference_update
CoercedSet_symmetric_difference_update(self, values) ==
    set_symmetric_difference_update(self.items,
                                    CoercedSet_coerce_iterable(self, values))

\* CoercedSet.__ior__
CoercedSet_ior(self, y) ==
    set_ior(self.items, CoercedSet_coerce_iterable(self, y))

\* CoercedSet.__ixor__
CoercedSet_ixor(self, y) ==
    set_ixor(self.items, CoercedSet_coerce_iterable(self, y))

(***************************************************************************)
(* The compound types                                                      *)
(***************************************************************************)
DictT(element_field) == [cls |-> "Dict", p |-> element_field]
SetT(element_field) == [cls |-> "Set", p |-> element_field]

\* return coerced_list / coerced_dict / coerced_set, or the raise
AsList(r) == IF ~r.ok THEN [ok |-> FALSE, val |-> r.val]
             ELSE Ok(CoercedListV(r.items))
AsDict(r) == IF ~r.ok THEN [ok |-> FALSE, val |-> r.val]
             ELSE Ok(CoercedDictV(r.items))
AsSet(r) == IF ~r.ok THEN [ok |-> FALSE, val |-> r.val]
            ELSE Ok(CoercedSetV(r.items))

\* isinstance(value, list)
IsList(value) == value.k \in {"list", "CoercedList"}

\* List.coerce
List_coerce(type, attr, value) ==
    IF ~IsList(value)
      THEN Raise("ValueError", "A list is required in field %(attr)s, not a %(type)s",
                 attr, TypeName(value))
      ELSE AsList(CoercedList_extend(EnableCoercing(type.p, attr, <<>>),
                                     value.v))

\* Dict.coerce
Dict_coerce(type, attr, value) ==
    IF value.k # "dict"
      THEN Raise("ValueError", "A dict is required in field %(attr)s, not a %(type)s",
                 attr, TypeName(value))
      ELSE AsDict(CoercedDict_update(EnableCoercing(type.p, attr, <<>>),
                                     value, <<>>))

\* Set.coerce
Set_coerce(type, attr, value) ==
    IF value.k # "set"
      THEN Raise("ValueError", "A set is required in field %(attr)s, not a %(type)s",
                 attr, TypeName(value))
      ELSE AsSet(CoercedSet_update(EnableCoercing(type.p, attr, {}), value.v))

\* self._type.coerce(obj, attr, value), by the class of self._type
Type_coerce(type, attr, value) ==
    CASE type.cls = "FieldType" -> FieldType_coerce(attr, value)
      [] type.cls = "String" -> String_coerce(attr, value)
      [] type.cls = "SensitiveString" -> String_coerce(attr, value)
      [] type.cls = "VersionPredicate" -> VersionPredicate_coerce(attr, value)
      [] type.cls = "Enum" -> Enum_coerce(type, attr, value)
      [] type.cls = "UUID" -> UUID_coerce(attr, value)
      [] type.cls = "MACAddress" -> MACAddress_coerce(attr, value)
      [] type.cls = "Integer" -> Integer_coerce(attr, value)
      [] type.cls = "Float" -> Float_coerce(attr, value)
      [] type.cls = "Boolean" -> Boolean_coerce(attr, value)
      [] type.cls = "FlexibleBoolean" -> FlexibleBoolean_coerce(attr, value)
      [] type.cls = "DateTime" -> DateTime_coerce(type, attr, value)
      [] type.cls = "IPAddress" -> IPAddress_coerce(attr, value)
      [] type.cls = "IPV4Address" -> IPV4Address_coerce(attr, value)
      [] type.cls = "IPV6Address" -> IPV6Address_coerce(attr, value)
      [] type.cls = "IPNetwork" -> IPNetwork_coerce(attr, value)
      [] type.cls = "IPV4Network" -> IPV4Network_coerce(attr, value)
      [] type.cls = "IPV6Network" -> IPV6Network_coerce(attr, value)
      [] type.cls = "List" -> List_coerce(type, attr, value)
      [] type.cls = "Dict" -> Dict_coerce(type, attr, value)
      [] type.cls = "Set" -> Set_coerce(type, attr, value)

(***************************************************************************)
(* Field (fields.py).  A mutable value can be passed by reference, RefV(a) *)
(* into the heap h, so that what is shared and what is fresh is computed.  *)
(***************************************************************************)
Deref(value, h) ==
    IF value.k = "ref" THEN [k |-> h[value.v].cls, v |-> h[value.v].items]
    ELSE value

\* copy.deepcopy(value): a new object for a mutable value
DeepCopy(value, h) ==
    IF value.k = "ref"
      THEN [val |-> RefV(Len(h) + 1), heap |-> Append(h, h[value.v])]
      ELSE [val |-> value, heap |-> h]

\* the coerce methods that end in "return value": the argument itself
ReturnsArgument(type) == type.cls = "FieldType"

\* self._type.coerce(obj, attr, value) on a value that may be a reference:
\* List.coerce builds a new CoercedList
Returned(type, value, h, r) ==
    IF ~r.ok THEN [res |-> r, heap |-> h]
    ELSE IF ReturnsArgument(type) THEN [res |-> Ok(value), heap |-> h]
    ELSE IF value.k = "ref" /\ r.val.k = "CoercedList"
      THEN [res |-> Ok(RefV(Len(h) + 1)),
            heap |-> Append(h, [cls |-> "CoercedList", items |-> r.val.v])]
      ELSE [res |-> r, heap |-> h]

Type_coerce_heap(type, attr, value, h) ==
    Returned(type, value, h, Type_coerce(type, attr, Deref(value, h)))

\* self._type.coerce(obj, attr, copy.deepcopy(self._default))
Type_coerce_copy(type, attr, c) == Type_coerce_heap(type, attr, c.val, c.heap)

\* mutant: the nullable test comes after the default
Field_null_DefaultFirst(fld, attr, h) ==
    IF fld.default # UnspecifiedDefault
      THEN Type_coerce_copy(fld.type, attr, DeepCopy(fld.default, h))
    ELSE IF fld.nullable THEN [res |-> Ok(NoneV), heap |-> h]
    ELSE [res |-> Raise("ValueError", "Field `%s' cannot be None", attr, ""),
          heap |-> h]

\* mutant: the default is coerced without copy.deepcopy
Field_null_NoDeepCopy(fld, attr, h) ==
    IF fld.nullable THEN [res |-> Ok(NoneV), heap |-> h]
    ELSE IF fld.default # UnspecifiedDefault
      THEN Type_coerce_heap(fld.type, attr, fld.default, h)
      ELSE [res |-> Raise("ValueError", "Field `%s' cannot be None", attr, ""),
            heap |-> h]

\* Field._null
Field_null(fld, attr, h) ==
    IF fld.nullable THEN [res |-> Ok(NoneV), heap |-> h]
    ELSE IF fld.default # UnspecifiedDefault
      THEN Type_coerce_copy(fld.type, attr, DeepCopy(fld.default, h))
      ELSE [res |-> Raise("ValueError", "Field `%s' cannot be None", attr, ""),
            heap |-> h]

\* mutant: "if not value" instead of "if value is None"
Field_coerce_heap_Falsy(fld, attr, value, h) ==
    IF IsFalsy(value)
      THEN Field_null(fld, attr, h)
      ELSE Type_coerce_heap(fld.type, attr, value, h)

\* Field.coerce
Field_coerce_heap(fld, attr, value, h) ==
    IF value = NoneV
      THEN Field_null(fld, attr, h)
      ELSE Type_coerce_heap(fld.type, attr, value, h)

\* Field.coerce on values held by value
Field_coerce(fld, attr, value) == Field_coerce_heap(fld, attr, value, <<>>).res

(***************************************************************************)
(* to_primitive and from_primitive                                         *)
(***************************************************************************)
TupleV(items) == [k |-> "tuple", v |-> items]

\* the elements of a set, or the keys of a dict, in the order of iteration
RECURSIVE Iterate(_)
Iterate(S) ==
    IF S = {} THEN <<>>
    ELSE (LET x == CHOOSE x \in S : TRUE IN <<x>> \o Iterate(S \ {x}))

IPClasses ==
    {"IPAddress", "IPV4Address", "IPV6Address", "IPNetwork", "IPV4Network",
     "IPV6Network"}

RECURSIVE Type_to_primitive(_, _, _)
RECURSIVE Type_from_primitive(_, _, _)

\* FieldType.to_primitive, FieldType.from_primitive: return value
FieldType_to_primitive(attr, value) == value
FieldType_from_primitive(attr, value) == Ok(value)

\* Field.to_primitive
Field_to_primitive(fld, attr, value) ==
    IF value = NoneV THEN NoneV ELSE Type_to_primitive(fld.type, attr, value)

\* Field.from_primitive
Field_from_primitive(fld, attr, value) ==
    IF value = NoneV THEN Ok(NoneV)
    ELSE Type_from_primitive(fld.type, attr, value)

\* [self._element_type.to_primitive(obj, attr, x) for x in value]
ElementsToPrimitive(type, attr, elements) ==
    [i \in DOMAIN elements |-> Field_to_primitive(type.p, attr, elements[i])]

\* List.to_primitive
List_to_primitive(type, attr, value) ==
    ListV(ElementsToPrimitive(type, attr, value.v))

\* '%s["%s"]' % (attr, key)
QuotedKeyAttName(attr, key) ==
    attr \o <<"[", "\"">> \o PyStr(key) \o <<"\"", "]">>

\* Dict.to_primitive: a dict, given by its pairs
PairsToPrimitive(type, attr, items, keys) ==
    [i \in DOMAIN keys |->
       <<keys[i], Field_to_primitive(type.p, QuotedKeyAttName(attr, keys[i]),
                                     items[keys[i]])>>]

Dict_to_primitive(type, attr, value) ==
    DictV(PairsToPrimitive(type, attr, value.v, Iterate(DOMAIN value.v)))

\* mutant: the elements are returned as a set
Set_to_primitive_AsSet(type, attr, value) ==
    SetV(ElementsToPrimitive(type, attr, Iterate(value.v)))

\* Set.to_primitive
Set_to_primitive(type, attr, value) ==
    TupleV(ElementsToPrimitive(type, attr, Iterate(value.v)))

Type_to_primitive(type, attr, value) ==
    CASE type.cls = "DateTime" -> DateTime_to_primitive(attr, value)
      [] type.cls \in IPClasses -> IPAddress_to_primitive(attr, value)
      [] type.cls = "List" -> List_to_primitive(type, attr, value)
      [] type.cls = "Dict" -> Dict_to_primitive(type, attr, value)
      [] type.cls = "Set" -> Set_to_primitive(type, attr, value)
      [] OTHER -> FieldType_to_primitive(attr, value)

\* [self._element_type.from_primitive(obj, attr, x) for x in value]
RECURSIVE ElementsFromPrimitive(_, _, _)
ElementsFromPrimitive(type, attr, elements) ==
    IF elements = <<>> THEN Ok(<<>>)
    ELSE Cons(Field_from_primitive(type.p, attr, Head(elements)),
              ElementsFromPrimitive(type, attr, Tail(elements)))

RECURSIVE PairsFromPrimitive(_, _, _)
PairsFromPrimitive(type, attr, pairs) ==
    IF pairs = <<>> THEN Ok(<<>>)
    ELSE PairCons(Head(pairs)[1],
                  Field_from_primitive(type.p,
                                       QuotedKeyAttName(attr, Head(pairs)[1]),
                                       Head(pairs)[2]),
                  PairsFromPrimitive(type, attr, Tail(pairs)))

AsPlainList(r) == IF ~r.ok THEN r ELSE Ok(ListV(r.val))
AsPlainDict(r) == IF ~r.ok THEN r ELSE Ok(DictV(r.val))
AsPlainSet(r) ==
    IF ~r.ok THEN r
    ELSE IF \E i \in DOMAIN r.val : IsUnhashable(r.val[i])
      THEN Raise("TypeError", "unhashable type", <<>>, "")
    ELSE Ok(SetV(Iterate({r.val[i] : i \in DOMAIN r.val})))

\* List.from_primitive, Dict.from_primitive, Set.from_primitive
List_from_primitive(type, attr, value) ==
    AsPlainList(ElementsFromPrimitive(type, attr, value.v))
Dict_from_primitive(type, attr, value) ==
    AsPlainDict(PairsFromPrimitive(type, attr, value.v))
Set_from_primitive(type, attr, value) ==
    AsPlainSet(ElementsFromPrimitive(type, attr, value.v))

\* IPAddress.from_primitive: return self.coerce(obj, attr, value)
IPAddress_from_primitive(type, attr, value) == Type_coerce(type, attr, value)

Type_from_primitive(type, attr, value) ==
    CASE type.cls = "DateTime" -> DateTime_from_primitive(type, attr, value)
      [] type.cls \in IPClasses -> IPAddress_from_primitive(type, attr, value)
      [] type.cls = "List" -> List_from_primitive(type, attr, value)
      [] type.cls = "Dict" -> Dict_from_primitive(type, attr, value)
      [] type.cls = "Set" -> Set_from_primitive(type, attr, value)
      [] OTHER -> FieldType_from_primitive(attr, value)

(***************************************************************************)
(* Calls of Field.coerce, and in-place changes of what they returned       *)
(***************************************************************************)
\* calls of Field.coerce in one run
MaxCalls == 3
\* in-place changes of returned values in one run
MaxMutations == 2

AttrNames == {<<"f", "o", "o">>, <<"b", "a", "r">>}

ElementIntegerField == Field(IntegerT, FALSE, UnspecifiedDefault)

TestTypes == {FieldTypeT, StringT, IntegerT, ListT(ElementIntegerField)}

\* the contents of a mutable (list) default
ListDefaults ==
    {<<IntV(1)>>, <<StrV(<<"2">>), IntV(1)>>, <<StrV(<<"x">>)>>}

ScalarDefaults ==
    {UnspecifiedDefault, NoneV, IntV(0), IntV(1), StrV(<<"2">>), StrV(<<"x">>)}

CallValues ==
    {NoneV, IntV(0), IntV(1), BoolV(FALSE), StrV(<<"2">>), StrV(<<"x">>),
     ListV(<<IntV(1), StrV(<<"2">>)>>), ListV(<<StrV(<<"x">>)>>)}

MutationValues == {IntV(5), StrV(<<"6">>), StrV(<<"x">>)}

FldInit ==
    /\ DepIdle /\ CollIdle /\ TypeIdle /\ HashIdle /\ RelIdle
    /\ \E type \in TestTypes, nullable \in BOOLEAN :
         \/ /\ \E d \in ScalarDefaults : cur_field = Field(type, nullable, d)
            /\ heap = <<>>
         \/ /\ cur_field = Field(type, nullable, RefV(1))
            /\ \E items \in ListDefaults :
                 heap = <<[cls |-> "list", items |-> items]>>
    /\ default_snapshot = heap
    /\ returned = <<>>
    /\ last = [n |-> 0, muts |-> 0, attr |-> <<>>, arg |-> NoneV,
               res |-> Ok(NoneV), deep |-> Ok(NoneV)]
    /\ n_mut = 0

\* the result with a reference replaced by the value it refers to
DeepResult(res, h) == IF res.ok THEN Ok(Deref(res.val, h)) ELSE res

\* foo.attr = value: field.coerce(obj, attr, value)
FieldCoerceDone(attr, value, r) ==
    /\ heap' = r.heap
    /\ last' = [n |-> last.n + 1, muts |-> n_mut, attr |-> attr,
                arg |-> value, res |-> r.res,
                deep |-> DeepResult(r.res, r.heap)]
    /\ returned' = IF value = NoneV /\ r.res.ok
                     THEN Append(returned, r.res.val)
                     ELSE returned

FieldCoerceCall ==
    /\ last.n < MaxCalls
    /\ \E attr \in AttrNames, value \in CallValues :
         FieldCoerceDone(attr, value,
                         Field_coerce_heap(cur_field, attr, value, heap))
    /\ UNCHANGED <<cur_field, default_snapshot, n_mut>>
    /\ UNCHANGED nonFldVars

MutateDone(a, r) ==
    /\ r.ok
    /\ heap' = [heap EXCEPT ![a].items = r.items]

\* returned_value.extend([x]) on a value an earlier coerce(None) returned
MutateReturned ==
    /\ n_mut < MaxMutations
    /\ \E i \in 1..Len(returned), x \in MutationValues :
         /\ returned[i].k = "ref"
         /\ MutateDone(returned[i].v,
                       IF heap[returned[i].v].cls = "CoercedList"
                         THEN CoercedList_extend(
                                EnableCoercing(cur_field.type.p, <<>>,
                                               heap[returned[i].v].items),
                                <<x>>)
                         ELSE list_extend(heap[returned[i].v].items, Ok(<<x>>)))
    /\ n_mut' = n_mut + 1
    /\ UNCHANGED <<cur_field, default_snapshot, returned, last>>
    /\ UNCHANGED nonFldVars

FldNext == FieldCoerceCall \/ MutateReturned

SpecField == FldInit /\ [][FldNext]_vars

NonNullableWithDefault ==
    ~cur_field.nullable /\ cur_field.default # UnspecifiedDefault

\* the default as it was configured, by value
ConfiguredDefault == Deref(cur_field.default, default_snapshot)

\* C4: on a nullable Field coerce(obj, attr, None) returns None, whatever
\* default is configured.
C4_NullableNullIsNull ==
    (last.n > 0 /\ cur_field.nullable /\ last.arg = NoneV) =>
        last.res = Ok(NoneV)

C4_Witness ==
    /\ last.n > 0 /\ cur_field.nullable /\ last.arg = NoneV
    /\ cur_field.default \notin {UnspecifiedDefault, NoneV}
    /\ last.res = Ok(NoneV)

\* C5: on a non-nullable Field with default D every coerce(None) returns a
\* value equal to the type's coerce(D) (or fails as it does); D is never
\* changed by changing returned values, and no two calls return the same
\* mutable object, nor D itself.
C5_DefaultCoercedFresh ==
    NonNullableWithDefault =>
        /\ (last.n > 0 /\ last.arg = NoneV) =>
              last.deep = Type_coerce(cur_field.type, last.attr,
                                      ConfiguredDefault)
        /\ cur_field.default.k = "ref" =>
              heap[cur_field.default.v] = default_snapshot[cur_field.default.v]
        /\ \A i \in 1..Len(returned) :
              returned[i].k = "ref" =>
                 /\ returned[i] # cur_field.default
                 /\ \A j \in 1..Len(returned) :
                       j # i => returned[j] # returned[i]

C5_Witness ==
    /\ NonNullableWithDefault /\ cur_field.default.k = "ref"
    /\ Len(returned) >= 2 /\ returned[1].k = "ref"
    /\ last.arg = NoneV /\ last.muts > 0 /\ last.res.ok
    /\ heap[returned[1].v].items # ConfiguredDefault.v
    /\ last.deep = Type_coerce(cur_field.type, last.attr, ConfiguredDefault)

\* C6: a non-nullable Field without default fails coerce(None) with the
\* required-value error naming the attribute, and for every non-None value
\* Field.coerce gives exactly what the wrapped type's coerce gives.
C6_RequiredOrDelegated ==
    last.n > 0 =>
        /\ (last.arg = NoneV /\ ~cur_field.nullable
              /\ cur_field.default = UnspecifiedDefault) =>
              last.res = Raise("ValueError", "Field `%s' cannot be None",
                               last.attr, "")
        /\ last.arg # NoneV =>
              last.deep = Type_coerce(cur_field.type, last.attr, last.arg)

C6_Witness ==
    /\ last.n > 1 /\ last.arg = NoneV /\ ~cur_field.nullable
    /\ cur_field.default = UnspecifiedDefault
    /\ ~last.res.ok /\ last.res.val.attr = last.attr

(***************************************************************************)
(* Calls on a coercing container                                           *)
(***************************************************************************)
\* length a list may reach
MaxLen == 3
\* elements given to one call
MaxBatch == 2

AttrFoo == <<"f", "o", "o">>

ElemFields ==
    {Field(IntegerT, FALSE, UnspecifiedDefault),
     Field(IntegerT, TRUE, UnspecifiedDefault),
     Field(StringT, FALSE, UnspecifiedDefault)}

RawValues == {NoneV, IntV(1), StrV(<<"2">>), StrV(<<"x">>)}

RawKeys == {StrV(<<"a">>), StrV(<<"b">>), IntV(3)}

Batches == UNION {[1..n -> RawValues] : n \in 0..MaxBatch}

RawPairs == RawKeys \X RawValues

\* the (key, value) pairs of a dict: no key twice
PairBatches ==
    {d \in UNION {[1..n -> RawPairs] : n \in 0..MaxBatch} :
        \A i, j \in DOMAIN d : i # j => d[i][1] # d[j][1]}

\* keyword arguments: text keys
Kwargs == {<<>>} \cup {<<<<key, v>>>> : key \in {StrV(<<"a">>)}, v \in RawValues}

Slices == [start : {NoneV, IntV(1)}, stop : {NoneV, IntV(2)},
           step : {NoneV, IntV(2)}]

NoCall == [name |-> "none", at |-> NoneV, elems |-> <<>>, ok |-> TRUE,
           val |-> NoneV]

\* the container a compound type's coerce returned
Constructed(kind, element_field, r) ==
    /\ r.ok
    /\ c_kind = kind
    /\ c_self = EnableCoercing(element_field, AttrFoo, r.val.v)
    /\ c_prev = r.val.v
    /\ c_op = NoCall

\* what a container without an element type is constructed from
PlainBatches == {<<IntV(1)>>, <<StrV(<<"x">>)>>}

\* CoercedList(value), CoercedDict(value), CoercedSet(value)
ConstructedPlain(kind, items) ==
    /\ c_kind = kind
    /\ c_self = NotCoercing(items)
    /\ c_prev = items
    /\ c_op = NoCall

CollInit ==
    /\ DepIdle /\ FldIdle /\ TypeIdle /\ HashIdle /\ RelIdle
    /\ \/ \E value \in PlainBatches :
            ConstructedPlain("CoercedList", value)
       \/ \E value \in PlainBatches :
            ConstructedPlain("CoercedDict",
                             [key \in {StrV(<<"a">>)} |-> value[1]])
       \/ \E value \in PlainBatches :
            ConstructedPlain("CoercedSet", Range(value))
       \/ \E element_field \in ElemFields :
            \/ \E value \in Batches :
                 Constructed("CoercedList", element_field,
                             List_coerce(ListT(element_field), AttrFoo,
                                         ListV(value)))
            \/ \E value \in PairBatches :
                 Constructed("CoercedDict", element_field,
                             Dict_coerce(DictT(element_field), AttrFoo,
                                         DictV(value)))
            \/ \E value \in Batches :
                 Constructed("CoercedSet", element_field,
                             Set_coerce(SetT(element_field), AttrFoo,
                                        SetV(value)))

\* a call made and what it left; the caller makes one call at a time
Called(name, at, elems, r) ==
    /\ c_op.name = "none"
    /\ (c_kind = "CoercedList" /\ r.ok) => Len(r.items) <= MaxLen
    /\ c_prev' = c_self.items
    /\ c_self' = [c_self EXCEPT !.items = r.items]
    /\ c_op' = [name |-> name, at |-> at, elems |-> elems, ok |-> r.ok,
                val |-> r.val]
    /\ UNCHANGED c_kind
    /\ UNCHANGED nonCollVars

Seconds(pairs) == [i \in DOMAIN pairs |-> pairs[i][2]]
Firsts(pairs) == [i \in DOMAIN pairs |-> pairs[i][1]]

ListAppend ==
    /\ c_kind = "CoercedList"
    /\ \E x \in RawValues :
         Called("append", NoneV, <<x>>, CoercedList_append(c_self, x))

ListExtend ==
    /\ c_kind = "CoercedList"
    /\ \E t \in Batches :
         Called("extend", NoneV, t, CoercedList_extend(c_self, t))

ListInsert ==
    /\ c_kind = "CoercedList"
    /\ \E i \in (0 - 1)..MaxLen, x \in RawValues :
         Called("insert", IntV(i), <<x>>, CoercedList_insert(c_self, i, x))

ListSetItem ==
    /\ c_kind = "CoercedList"
    /\ \E i \in (0 - 1)..MaxLen, y \in RawValues :
         Called("setitem", IntV(i), <<y>>, CoercedList_setitem(c_self, i, y))

ListSetItemSlice ==
    /\ c_kind = "CoercedList"
    /\ \E sl \in Slices, y \in Batches :
         Called("setitem_slice", sl, y, CoercedList_setitem_slice(c_self, sl, y))

ListIAdd ==
    /\ c_kind = "CoercedList"
    /\ \E y \in Batches :
         Called("iadd", NoneV, y, CoercedList_iadd(c_self, y))

ListSetSlice ==
    /\ c_kind = "CoercedList"
    /\ \E i \in 0..1, j \in 1..2, y \in Batches :
         Called("setslice",
                [start |-> IntV(i), stop |-> IntV(j), step |-> NoneV], y,
                CoercedList_setslice(c_self, i, j, y))

DictSetItem ==
    /\ c_kind = "CoercedDict"
    /\ \E key \in RawKeys, value \in RawValues :
         Called("setitem", <<key>>, <<value>>,
                CoercedDict_setitem(c_self, key, value))

DictUpdate ==
    /\ c_kind = "CoercedDict"
    /\ \E other \in {NoneV} \cup {DictV(d) : d \in PairBatches},
          kwargs \in Kwargs :
         Called("update",
                IF other = NoneV THEN Firsts(kwargs)
                                 ELSE Firsts(other.v \o kwargs),
                IF other = NoneV THEN Seconds(kwargs)
                                 ELSE Seconds(other.v \o kwargs),
                CoercedDict_update(c_self, other, kwargs))

DictSetDefault ==
    /\ c_kind = "CoercedDict"
    /\ \E key \in RawKeys, default \in RawValues :
         Called("setdefault", <<key>>, <<default>>,
                CoercedDict_setdefault(c_self, key, default))

SetAdd ==
    /\ c_kind = "CoercedSet"
    /\ \E value \in RawValues :
         Called("add", NoneV, <<value>>, CoercedSet_add(c_self, value))

SetUpdate ==
    /\ c_kind = "CoercedSet"
    /\ \E values \in Batches :
         Called("update", NoneV, values, CoercedSet_update(c_self, values))

SetSymmetricDifferenceUpdate ==
    /\ c_kind = "CoercedSet"
    /\ \E values \in Batches :
         Called("symmetric_difference_update", NoneV, values,
                CoercedSet_symmetric_difference_update(c_self, values))

SetIOr ==
    /\ c_kind = "CoercedSet"
    /\ \E y \in Batches :
         Called("ior", NoneV, y, CoercedSet_ior(c_self, y))

SetIXor ==
    /\ c_kind = "CoercedSet"
    /\ \E y \in Batches :
         Called("ixor", NoneV, y, CoercedSet_ixor(c_self, y))

\* the caller has seen the outcome of its call and goes on
CallerProceeds ==
    /\ c_op.name # "none"
    /\ c_op' = NoCall
    /\ c_prev' = c_self.items
    /\ UNCHANGED <<c_kind, c_self>>
    /\ UNCHANGED nonCollVars

CollNext ==
    \/ CallerProceeds
    \/ ListAppend \/ ListExtend \/ ListInsert \/ ListSetItem
    \/ ListSetItemSlice \/ ListIAdd \/ ListSetSlice
    \/ DictSetItem \/ DictUpdate \/ DictSetDefault
    \/ SetAdd \/ SetUpdate \/ SetSymmetricDifferenceUpdate \/ SetIOr
    \/ SetIXor

SpecColl == CollInit /\ [][CollNext]_vars

\* whether, and to what, the bound element Field coerces a new element
\* does the element coerce, and to what; a container without an element
\* type takes every element as it is
ElemOK(e) == ~c_self.coercing \/ Field_coerce(c_self.element_type, <<>>, e).ok
CoercedOf(e) ==
    IF c_self.coercing THEN Field_coerce(c_self.element_type, <<>>, e).val
    ELSE e

\* every new element of the last call (and every key, for a dict) coerces
AllCoercible ==
    /\ \A i \in DOMAIN c_op.elems : ElemOK(c_op.elems[i])
    /\ c_kind = "CoercedDict" =>
          \A i \in DOMAIN c_op.at : c_op.at[i].k = "str"

CoercedElems == [i \in DOMAIN c_op.elems |-> CoercedOf(c_op.elems[i])]

\* the elements held
Held(items) == IF c_kind = "CoercedSet" THEN items ELSE Range(items)

\* what the plain list / dict / set operation does with the coerced elements
PlainEffect ==
    CASE c_kind = "CoercedList" /\ c_op.name \in {"append", "extend", "iadd"} ->
           c_self.items = c_prev \o CoercedElems
      [] c_kind = "CoercedList" /\ c_op.name = "insert" ->
           /\ Len(c_self.items) = Len(c_prev) + 1
           /\ \E q \in DOMAIN c_self.items :
                /\ c_self.items[q] = CoercedElems[1]
                /\ c_prev = SubSeq(c_self.items, 1, q - 1)
                              \o SubSeq(c_self.items, q + 1, Len(c_self.items))
      [] c_kind = "CoercedList" /\ c_op.name = "setitem" ->
           /\ Len(c_self.items) = Len(c_prev)
           /\ \E q \in DOMAIN c_self.items :
                /\ c_self.items[q] = CoercedElems[1]
                /\ \A o \in DOMAIN c_self.items :
                      o # q => c_self.items[o] = c_prev[o]
      [] c_kind = "CoercedList" /\ c_op.name \in {"setitem_slice", "setslice"} ->
           /\ Range(CoercedElems) \subseteq Range(c_self.items)
           /\ Range(c_self.items) \subseteq Range(c_prev) \cup Range(CoercedElems)
      [] c_kind = "CoercedDict" /\ c_op.name \in {"setitem", "update"} ->
           /\ DOMAIN c_self.items = DOMAIN c_prev \cup Range(c_op.at)
           /\ \A key \in DOMAIN c_prev \ Range(c_op.at) :
                 c_self.items[key] = c_prev[key]
           /\ \A i \in DOMAIN c_op.at :
                 (\A j \in DOMAIN c_op.at : j > i => c_op.at[j] # c_op.at[i])
                    => c_self.items[c_op.at[i]] = CoercedElems[i]
      [] c_kind = "CoercedDict" /\ c_op.name = "setdefault" ->
           IF c_op.at[1] \in DOMAIN c_prev
             THEN c_self.items = c_prev /\ c_op.val = c_prev[c_op.at[1]]
             ELSE /\ c_self.items = DictPut(c_prev, c_op.at[1], CoercedElems[1])
                  /\ c_op.val = CoercedElems[1]
      [] c_kind = "CoercedSet" /\ c_op.name \in {"add", "update", "ior"} ->
           c_self.items = c_prev \cup Range(CoercedElems)
      [] c_kind = "CoercedSet"
           /\ c_op.name \in {"symmetric_difference_update", "ixor"} ->
           c_self.items = (c_prev \ Range(CoercedElems))
                            \cup (Range(CoercedElems) \ c_prev)

\* the errors of the plain list operations
PlainErrors == {"IndexError", "ValueError"}

\* C2 as stated: if the coercion of a new element fails the call raises and
\* the container is as before; if all coercions succeed, every coerced
\* element is held by the container after the call.
C2_CoercedElementsStored ==
    c_op.name # "none" =>
        /\ ~AllCoercible => (~c_op.ok /\ c_self.items = c_prev)
        /\ AllCoercible =>
              Range(CoercedElems) \subseteq Held(c_self.items)

\* C2: a call that raises leaves the container as it was; a call with an
\* element (or key) that does not coerce raises, also when earlier elements of
\* the batch coerced; a call whose elements all coerce performs the plain
\* list / dict / set operation on the coerced elements, and if that plain
\* operation raises (index out of range, extended slice of another size) it
\* is the only error and nothing is changed.
C2_NoPartialMutation ==
    c_op.name # "none" =>
        /\ ~c_op.ok => c_self.items = c_prev
        /\ ~AllCoercible => ~c_op.ok
        /\ (AllCoercible /\ c_op.ok) => PlainEffect
        /\ (AllCoercible /\ ~c_op.ok) =>
              /\ c_kind = "CoercedList"
              /\ c_op.name \in {"setitem", "setitem_slice"}
              /\ c_op.val.exc \in PlainErrors

C2_Witness ==
    /\ c_kind = "CoercedList" /\ c_op.name = "extend"
    /\ Len(c_op.elems) >= 2
    /\ ElemOK(c_op.elems[1]) /\ ~ElemOK(c_op.elems[2])
    /\ ~c_op.ok /\ c_prev # <<>> /\ c_self.items = c_prev

\* the coerced form of the element Field's type
InCoercedForm(element_field, e) ==
    IF e = NoneV THEN element_field.nullable
    ELSE CASE element_field.type.cls = "Integer" -> e.k = "int"
           [] element_field.type.cls = "String" -> e.k = "str"
           [] OTHER -> TRUE

\* C3: whatever calls were made on a container that List.coerce, Dict.coerce
\* or Set.coerce returned, every element it holds is in the coerced form of
\* its element Field: of the element type, or None only if the Field is
\* nullable.
C3_ElementsCoerced ==
    c_self.coercing =>
        \A e \in Held(c_self.items) : InCoercedForm(c_self.element_type, e)

C3_Witness ==
    /\ c_self.coercing
    /\ c_op.name = "insert" /\ c_op.ok
    /\ ~InCoercedForm(c_self.element_type, c_op.elems[1])
    /\ CoercedOf(c_op.elems[1]) \in Held(c_self.items)
    /\ C3_ElementsCoerced

(***************************************************************************)
(* A field type constructed, and a value coerced, serialized and read back *)
(***************************************************************************)
\* elements of a list, dict or set given to a compound type's coerce
MaxElems == 2

SensitiveStringT == [cls |-> "SensitiveString", p |-> 0]
VersionPredicateT == [cls |-> "VersionPredicate", p |-> 0]
UUIDT == [cls |-> "UUID", p |-> 0]
MACAddressT == [cls |-> "MACAddress", p |-> 0]
FloatT == [cls |-> "Float", p |-> 0]
BooleanT == [cls |-> "Boolean", p |-> 0]
FlexibleBooleanT == [cls |-> "FlexibleBoolean", p |-> 0]
IPTypes == {[cls |-> c, p |-> 0] : c \in IPClasses}

\* the valid_values an Enum is constructed with
EnumValidValues ==
    {<<>>,
     <<StrV(<<"a">>), StrV(<<"x">>)>>,
     <<IntV(1), IntV(0)>>,
     <<StrV(<<"a">>), NoneV>>}

ScalarTypes ==
    {StringT, SensitiveStringT, VersionPredicateT, UUIDT, MACAddressT,
     IntegerT, FloatT, BooleanT, FlexibleBooleanT, DateTimeT(TRUE),
     DateTimeT(FALSE)}
      \cup IPTypes
      \cup {[cls |-> "Enum", p |-> valid_values] :
              valid_values \in EnumValidValues}

ScalarElementFields ==
    {Field(IntegerT, FALSE, UnspecifiedDefault),
     Field(StringT, TRUE, UnspecifiedDefault),
     Field(DateTimeT(TRUE), FALSE, UnspecifiedDefault),
     Field([cls |-> "IPAddress", p |-> 0], FALSE, UnspecifiedDefault)}

ElementFields ==
    ScalarElementFields
      \cup {Field(SetT(Field(IntegerT, FALSE, UnspecifiedDefault)), FALSE,
                  UnspecifiedDefault),
            Field(ListT(Field(StringT, TRUE, UnspecifiedDefault)), FALSE,
                  UnspecifiedDefault),
            Field(DictT(Field(DateTimeT(FALSE), TRUE, UnspecifiedDefault)),
                  FALSE, UnspecifiedDefault)}

CompoundTypes ==
    {ListT(f) : f \in ElementFields} \cup {DictT(f) : f \in ElementFields}
      \cup {SetT(f) : f \in ElementFields}

\* texts around the form of a MAC address
MacGroups == {<<"a", "0">>, <<"F", "F">>, <<"z", "z">>, <<"a">>}
MacSeparators == {<<":">>, <<"-">>}
MacTails ==
    {<<>>, <<"\n">>, <<"\n", "\n">>, <<" ">>, <<":", "f", "f">>}
MacMiddle(sep) ==
    sep \o <<"B", "b">> \o sep \o <<"c", "c">> \o sep \o <<"1", "d">>
        \o sep \o <<"e", "9">> \o sep
MacTexts ==
    {StrV(g1 \o MacMiddle(sep) \o g6 \o tail) :
       g1 \in MacGroups, sep \in MacSeparators, g6 \in MacGroups,
       tail \in MacTails}
      \cup {StrV(<<"a", "0">> \o MacMiddle(<<":">>)),
            StrV(<<"a", "0">> \o MacMiddle(<<":">>) \o <<"\n">>),
            StrV(MacMiddle(<<":">>) \o <<"f", "f">>)}

ScalarValues ==
    {NoneV, IntV(0), IntV(1), BoolV(TRUE), BoolV(FALSE), FloatV(1), FloatV(2),
     StrV(<<>>), StrV(<<"1">>), StrV(<<"2">>), StrV(<<"a">>), StrV(<<"x">>),
     StrV(<<"T", "r", "u", "e">>), StrV(<<">", "=", "1">>),
     StrV(<<"T", "1">>), StrV(<<"T", "1", "Z">>), StrV(<<"T", "2", "+", "1">>),
     StrV(<<"T", "2", "-", "1">>), StrV(<<"T", "+", "1">>),
     DateTimeV(1, FALSE, 0), DateTimeV(1, TRUE, 0), DateTimeV(2, TRUE, 1),
     DateTimeV(0, TRUE, 0 - 1),
     StrV(IPv4Prefix \o <<"1">>), StrV(IPv4Prefix \o <<"2", "5", "6">>),
     StrV(IPv6Prefix \o <<"1">>),
     StrV(IPv4Prefix \o <<"1", "/", "2", "4">>),
     StrV(IPv4Prefix \o <<"1", "/", "3", "3">>),
     StrV(IPv4Prefix \o <<"1", "/">>),
     StrV(IPv6Prefix \o <<"1", "/", "6", "4">>),
     IPAddressV(IPv4, 7), IPAddressV(IPv6, 7), IPNetworkV(IPv4, 7, 8),
     IPNetworkV(IPv6, 7, 8)}

ElementValues ==
    {NoneV, IntV(1), StrV(<<"2">>), StrV(<<"x">>), DateTimeV(2, TRUE, 1),
     StrV(IPv4Prefix \o <<"1">>),
     SetV(<<IntV(1), StrV(<<"2">>)>>),
     ListV(<<NoneV, IntV(1)>>),
     DictV(<<<<StrV(<<"a">>), StrV(<<"T", "2", "+", "1">>)>>,
             <<StrV(<<"b">>), NoneV>>>>)}

ElementBatches == UNION {[1..n -> ElementValues] : n \in 0..MaxElems}

ElementPairs ==
    {d \in UNION {[1..n -> {StrV(<<"a">>), StrV(<<"b">>), IntV(3)}
                             \X ElementValues] : n \in 0..MaxElems} :
        \A i, j \in DOMAIN d : i # j => d[i][1] # d[j][1]}

ElementSets ==
    {d \in ElementBatches :
        /\ \A i \in DOMAIN d : ~IsUnhashable(d[i])
        /\ \A i, j \in DOMAIN d : i # j => d[i] # d[j]}

\* the values coerce is called with, by the class of the type
ValuesFor(type) ==
    CASE type.cls \in {"IPAddress", "IPV4Address", "IPV6Address"} ->
           {v \in ScalarValues : v.k \in {"str", "int", "IPAddress"}}
      [] type.cls \in {"IPNetwork", "IPV4Network", "IPV6Network"} ->
           {v \in ScalarValues : v.k \in {"str", "IPNetwork"}}
      [] type.cls = "MACAddress" -> ScalarValues \cup MacTexts
      [] type.cls = "List" ->
           {ListV(d) : d \in ElementBatches} \cup {IntV(1), NoneV}
      [] type.cls = "Dict" ->
           {DictV(d) : d \in ElementPairs} \cup {IntV(1), NoneV}
      [] type.cls = "Set" ->
           {SetV(d) : d \in ElementSets} \cup {IntV(1), NoneV}
      [] OTHER -> ScalarValues

TypeInit ==
    /\ DepIdle /\ FldIdle /\ CollIdle /\ HashIdle /\ RelIdle
    /\ ty_pc = "new"
    /\ ty_type \in ScalarTypes \cup CompoundTypes
    /\ ty_value = NoneV
    /\ ty_coerced = Ok(NoneV)
    /\ ty_primitive = NoneV
    /\ ty_concrete = Ok(NoneV)

\* the constructor of the type's class
Constructor(type) ==
    IF type.cls = "Enum" THEN Enum_init(type.p) ELSE Ok(type)

Constructed_type(r) ==
    /\ ty_pc' = IF r.ok THEN "constructed" ELSE r.val.exc
    /\ UNCHANGED <<ty_type, ty_value, ty_coerced, ty_primitive, ty_concrete>>

TypeConstruct ==
    /\ ty_pc = "new"
    /\ Constructed_type(Constructor(ty_type))
    /\ UNCHANGED nonTypeVars

TypeCoerce ==
    /\ ty_pc = "constructed"
    /\ \E value \in ValuesFor(ty_type) :
         /\ ty_value' = value
         /\ ty_coerced' = Type_coerce(ty_type, AttrFoo, value)
    /\ ty_pc' = "coerced"
    /\ UNCHANGED <<ty_type, ty_primitive, ty_concrete>>
    /\ UNCHANGED nonTypeVars

TypeToPrimitive ==
    /\ ty_pc = "coerced" /\ ty_coerced.ok
    /\ ty_primitive' = Type_to_primitive(ty_type, AttrFoo, ty_coerced.val)
    /\ ty_pc' = "primitive"
    /\ UNCHANGED <<ty_type, ty_value, ty_coerced, ty_concrete>>
    /\ UNCHANGED nonTypeVars

TypeFromPrimitive ==
    /\ ty_pc = "primitive"
    /\ ty_concrete' = Type_from_primitive(ty_type, AttrFoo, ty_primitive)
    /\ ty_pc' = "concrete"
    /\ UNCHANGED <<ty_type, ty_value, ty_coerced, ty_primitive>>
    /\ UNCHANGED nonTypeVars

TypeNext == TypeConstruct \/ TypeCoerce \/ TypeToPrimitive \/ TypeFromPrimitive

SpecTypes == TypeInit /\ [][TypeNext]_vars

\* the same value of the same type
Same(a, b) == a.k = b.k /\ a.v = b.v

IsMember(value, valid_values) ==
    \E i \in DOMAIN valid_values : Same(valid_values[i], value)

\* C7: for an Enum constructed with the valid values V, coerce(v) returns v
\* itself for every v in V, coerce(x) fails for every x that is not one of
\* the values in V, and so every value coerce returns is a member of V.
C7_EnumReturnsMember ==
    (ty_type.cls = "Enum" /\ ty_pc = "coerced") =>
        /\ IsMember(ty_value, ty_type.p) => ty_coerced = Ok(ty_value)
        /\ ~IsMember(ty_value, ty_type.p) => ~ty_coerced.ok
        /\ ty_coerced.ok => IsMember(ty_coerced.val, ty_type.p)

\* six groups of two hexadecimal digits separated by colons
IsMacForm(s) ==
    /\ Len(s) = REGEX_Length
    /\ \A i \in DOMAIN s :
          IF i % (1 + REGEX_Digits) = 0 THEN s[i] = ":" ELSE IsHex(s[i])

\* C8: MACAddress.coerce accepts a value iff it is a text that, lower-cased
\* and with every "-" replaced by ":", is six colon-separated groups of two
\* hexadecimal digits; what it returns is that normalized text, 17 characters
\* long.
C8_MACAddressAcceptsExactly ==
    (ty_type.cls = "MACAddress" /\ ty_pc = "coerced") =>
        /\ ty_coerced.ok <=>
              (ty_value.k = "str" /\ IsMacForm(Lowered(ty_value.v)))
        /\ ty_coerced.ok =>
              /\ ty_coerced.val = StrV(Lowered(ty_value.v))
              /\ Len(ty_coerced.val.v) = REGEX_Length

RECURSIVE IsWire(_)
IsWire(primitive) ==
    CASE primitive.k \in {"str", "int", "float", "bool", "none"} -> TRUE
      [] primitive.k \in {"list", "tuple"} ->
           \A i \in DOMAIN primitive.v : IsWire(primitive.v[i])
      [] primitive.k = "dict" ->
           \A i \in DOMAIN primitive.v :
              primitive.v[i][1].k = "str" /\ IsWire(primitive.v[i][2])
      [] OTHER -> FALSE

ObjNames == {"A", "B", "C"}

\* obj_class.VERSION of the (first) class registered under a name
VERSION(n) == CASE n = "A" -> "1.0" [] n = "B" -> "1.1" [] OTHER -> "2.3"

\* A field as _get_dependencies sees it: the class of field._type and, for
\* fields.Object, its _obj_name.
IntegerFieldD == [type |-> "Integer", obj_name |-> ""]
ObjectFieldD(n) == [type |-> "Object", obj_name |-> n]
FieldDescs == {IntegerFieldD} \cup {ObjectFieldD(n) : n \in ObjNames}

\* the numbers of fields of the three schemas
FieldCounts ==
    {l \in [ObjNames -> 0..MaxTotalFields] :
        l["A"] + l["B"] + l["C"] <= MaxTotalFields}

Registries ==
    UNION {[A : [1..l["A"] -> FieldDescs],
            B : [1..l["B"] -> FieldDescs],
            C : [1..l["C"] -> FieldDescs]] : l \in FieldCounts}

IsObjectType(field) == field.type = "Object"

Top == stack[Len(stack)]
Pop == SubSeq(stack, 1, Len(stack) - 1)
SetTop(fr) == [stack EXCEPT ![Len(stack)] = fr]

DepInit ==
    /\ CollIdle /\ TypeIdle
    /\ FldIdle /\ HashIdle /\ RelIdle
    /\ obj_fields \in Registries
    /\ tree = <<>>
    /\ stack = <<>>
    /\ todo = ObjNames
    /\ dpc = "run"

\* get_dependency_tree: for obj_name in self.obj_classes.keys(): call
GetDependencyTreeCall ==
    /\ dpc = "run" /\ stack = <<>> /\ todo # {}
    /\ \E n \in todo :
         /\ todo' = todo \ {n}
         /\ stack' = <<[cls |-> n, at |-> "enter", idx |-> 1]>>
    /\ UNCHANGED <<obj_fields, tree, dpc>>
    /\ UNCHANGED nonDepVars

\* get_dependency_tree: loop exhausted, return tree
GetDependencyTreeReturn ==
    /\ dpc = "run" /\ stack = <<>> /\ todo = {}
    /\ dpc' = "done"
    /\ UNCHANGED <<obj_fields, tree, stack, todo>>
    /\ UNCHANGED nonDepVars

\* _get_dependencies: if obj_name in tree: return
AlreadyInTree(cls) == cls \in DOMAIN tree

GetDependenciesEnter ==
    /\ dpc = "run" /\ stack # <<>> /\ Top.at = "enter"
    /\ IF AlreadyInTree(Top.cls)
         THEN stack' = Pop
         ELSE stack' = SetTop([Top EXCEPT !.at = "loop"])
    /\ UNCHANGED <<obj_fields, tree, todo, dpc>>
    /\ UNCHANGED nonDepVars

\* _get_dependencies: one iteration of the loop over obj_class.fields, up to
\* the recursive call
GetDependenciesField ==
    /\ dpc = "run" /\ stack # <<>> /\ Top.at = "loop"
    /\ Top.idx <= Len(obj_fields[Top.cls])
    /\ LET field == obj_fields[Top.cls][Top.idx] IN
         IF IsObjectType(field)
           THEN IF Len(stack) >= MaxDepth
                  THEN /\ dpc' = "RecursionError"
                       /\ UNCHANGED stack
                  ELSE /\ stack' = Append(SetTop([Top EXCEPT !.at = "called"]),
                                          [cls |-> field.obj_name,
                                           at |-> "enter", idx |-> 1])
                       /\ UNCHANGED dpc
           ELSE /\ stack' = SetTop([Top EXCEPT !.idx = @ + 1])
                /\ UNCHANGED dpc
    /\ UNCHANGED <<obj_fields, tree, todo>>
    /\ UNCHANGED nonDepVars

\* tree[obj_name] = {sub: sub_obj_class.VERSION}: the edges recorded before
\* are dropped
RecordEdge_Overwrite(t, obj_name, sub_obj_name) ==
    [n \in DOMAIN t \cup {obj_name} |->
        IF n = obj_name
        THEN [s \in {sub_obj_name} |-> VERSION(sub_obj_name)]
        ELSE t[n]]

\* tree.setdefault(obj_name, {}); tree[obj_name][sub] = sub_obj_class.VERSION
RecordEdge(t, obj_name, sub_obj_name) ==
    LET old == IF obj_name \in DOMAIN t THEN t[obj_name] ELSE <<>>
        new == [s \in DOMAIN old \cup {sub_obj_name} |->
                  IF s = sub_obj_name THEN VERSION(sub_obj_name) ELSE old[s]]
    IN [n \in DOMAIN t \cup {obj_name} |-> IF n = obj_name THEN new ELSE t[n]]

\* _get_dependencies: the recursive call returned; record the edge
GetDependenciesRecord ==
    /\ dpc = "run" /\ stack # <<>> /\ Top.at = "called"
    /\ LET field == obj_fields[Top.cls][Top.idx] IN
         tree' = RecordEdge(tree, Top.cls, field.obj_name)
    /\ stack' = SetTop([Top EXCEPT !.at = "loop", !.idx = @ + 1])
    /\ UNCHANGED <<obj_fields, todo, dpc>>
    /\ UNCHANGED nonDepVars

\* _get_dependencies: the loop over the fields is exhausted
GetDependenciesReturn ==
    /\ dpc = "run" /\ stack # <<>> /\ Top.at = "loop"
    /\ Top.idx > Len(obj_fields[Top.cls])
    /\ stack' = Pop
    /\ UNCHANGED <<obj_fields, tree, todo, dpc>>
    /\ UNCHANGED nonDepVars

DepNext ==
    \/ GetDependencyTreeCall
    \/ GetDependencyTreeReturn
    \/ GetDependenciesEnter
    \/ GetDependenciesField
    \/ GetDependenciesRecord
    \/ GetDependenciesReturn

SpecDep == DepInit /\ [][DepNext]_vars

HasSelfReference(n) ==
    \E i \in 1..Len(obj_fields[n]) : obj_fields[n][i] = ObjectFieldD(n)

\* C1: on every registry in which a schema S has an ObjectReference field to
\* itself, building the dependency tree never runs into unbounded recursion,
\* and the finished tree holds the self-edge tree[S][S] = S.VERSION.
C1_SelfReferenceTerminates ==
    (\E n \in ObjNames : HasSelfReference(n)) =>
        /\ dpc # "RecursionError"
        /\ dpc = "done" =>
             \A n \in ObjNames : HasSelfReference(n) =>
                /\ n \in DOMAIN tree
                /\ n \in DOMAIN tree[n]
                /\ tree[n][n] = VERSION(n)

(***************************************************************************)
(* ObjectVersionChecker fingerprints (fixture.py)                          *)
(***************************************************************************)
ObjectT(obj_name) ==
    [cls |-> "Object", p |-> [obj_name |-> obj_name, subclasses |-> FALSE]]

\* type(x).__name__ of a field type, as text
ClassName(type) ==
    CASE type.cls = "Integer" -> <<"I", "n", "t", "e", "g", "e", "r">>
      [] type.cls = "String" -> <<"S", "t", "r", "i", "n", "g">>
      [] type.cls = "List" -> <<"L", "i", "s", "t">>
      [] type.cls = "Dict" -> <<"D", "i", "c", "t">>
      [] type.cls = "Set" -> <<"S", "e", "t">>
      [] type.cls = "Object" -> <<"O", "b", "j", "e", "c", "t">>

\* '%s' % default
Default_str(default) ==
    IF default.k = "UnspecifiedDefault"
    THEN <<"<", "c", "l", "a", "s", "s", " ", "'", "o", "s", "l", "o", "_",
        "v", "e", "r", "s", "i", "o", "n", "e", "d", "o", "b", "j", "e", "c",
        "t", "s", ".", "f", "i", "e", "l", "d", "s", ".", "U", "n", "s", "p",
        "e", "c", "i", "f", "i", "e", "d", "D", "e", "f", "a", "u", "l", "t",
        "'", ">">>
    ELSE PyStr(default)

\* Field.__repr__
Field_repr(field) ==
    ClassName(field.type) \o <<"(", "d", "e", "f", "a", "u", "l", "t",
        "=">> \o Default_str(field.default)
        \o <<",", "n", "u", "l", "l", "a", "b", "l", "e",
            "=">> \o PyStr(BoolV(field.nullable)) \o <<")">>

\* repr of a str that holds no quote and no escape
str_repr(s) == <<"'">> \o s \o <<"'">>

RECURSIVE Join(_, _)
Join(sep, texts) ==
    IF texts = <<>> THEN <<>>
    ELSE IF Len(texts) = 1 THEN texts[1]
    ELSE texts[1] \o sep \o Join(sep, Tail(texts))

list_repr(texts) == <<"[">> \o Join(<<",", " ">>, texts) \o <<"]">>
tuple_repr(texts) == <<"(">> \o Join(<<",", " ">>, texts) \o <<")">>

\* the order of str: by code point, a prefix first
CodePoints == <<"'", ".", "0", "1", "2", "3", "4", "5", "6", "7", "8", "9",
    "A", "B", "Z", "a", "c", "d", "e", "f", "g", "m", "n", "o", "s", "t",
    "x", "y">>
Ord(c) == CHOOSE i \in 1..Len(CodePoints) : CodePoints[i] = c

RECURSIVE TextLess(_, _)
TextLess(a, b) ==
    IF b = <<>> THEN FALSE
    ELSE IF a = <<>> THEN TRUE
    ELSE IF a[1] = b[1] THEN TextLess(Tail(a), Tail(b))
    ELSE Ord(a[1]) < Ord(b[1])

\* sorted(keys): the keys of a dict are distinct, so its items sort by key
RECURSIVE sorted(_)
Least(S) == CHOOSE x \in S : \A y \in S \ {x} : TextLess(x, y)
LeastFirst(least, S) == <<least>> \o sorted(S \ {least})
sorted(S) == IF S = {} THEN <<>> ELSE LeastFirst(Least(S), S)

\* repr of the sorted items of a dict, each value shown by value_repr
ItemsRepr(d, value_repr(_)) ==
    LET keys == sorted(DOMAIN d)
    IN [i \in DOMAIN keys |->
           tuple_repr(<<str_repr(keys[i]), value_repr(d[keys[i]])>>)]

\* repr of inspect.getargspec(method) of a method that only has named
\* arguments
ArgSpec_repr(method) ==
    <<"A", "r", "g", "S", "p", "e", "c", "(", "a", "r", "g", "s", "=">>
        \o list_repr([i \in DOMAIN method.args |-> str_repr(method.args[i])])
        \o <<",", " ", "v", "a", "r", "a", "r", "g", "s", "=", "N", "o", "n",
            "e", ",", " ", "k", "e", "y", "w", "o", "r", "d", "s", "=", "N",
            "o", "n", "e", ",", " ", "d", "e", "f", "a", "u", "l", "t", "s",
            "=", "N", "o", "n", "e", ")">>

\* the attributes of the class that _find_remotable_method follows down to
\* an implementation
RemotableMethods(obj_class) ==
    [name \in {n \in DOMAIN obj_class.methods : obj_class.methods[n].remotable}
        |-> obj_class.methods[name]]

\* repr(relevant_data) in _get_fingerprint, extra_data_func being None
relevant_data_repr(obj_class) ==
    tuple_repr(
        <<list_repr(ItemsRepr(obj_class.fields, Field_repr)),
          list_repr(ItemsRepr(RemotableMethods(obj_class), ArgSpec_repr))>>
        \o (IF ~obj_class.child_versions.hasattr THEN <<>>
            ELSE <<<<"O", "r", "d", "e", "r", "e", "d", "D", "i", "c", "t",
                "(">>
                     \o (IF DOMAIN obj_class.child_versions.items = {}
                         THEN <<>>
                         ELSE list_repr(ItemsRepr(
                                  obj_class.child_versions.items, str_repr)))
                     \o <<")">>>>))

\* hashlib.md5(text).hexdigest(): the digest stands for the text it was
\* computed from, which makes it free of collisions
md5_hexdigest(text) == text

\* _get_fingerprint without the version in front
get_fingerprint_NoVersion(obj_class) ==
    md5_hexdigest(relevant_data_repr(obj_class))

\* ObjectVersionChecker._get_fingerprint
get_fingerprint(obj_class) ==
    obj_class.VERSION \o <<"-">> \o md5_hexdigest(relevant_data_repr(obj_class))

\* ObjectVersionChecker.get_hashes
get_hashes(classes) == [n \in DOMAIN classes |-> get_fingerprint(classes[n])]

\* dict.items() as a set, and dict.get
Items(d) == {<<n, d[n]>> : n \in DOMAIN d}
dict_get(d, n) == IF n \in DOMAIN d THEN StrV(d[n]) ELSE NoneV

\* test_hashes that reports every name of the baseline
test_hashes_AllStored(expected, computed) ==
    [expected |-> [n \in DOMAIN expected |-> dict_get(expected, n)],
     actual |-> [n \in DOMAIN expected |-> dict_get(computed, n)]]

\* ObjectVersionChecker.test_hashes, given what get_hashes computed
test_hashes(expected, computed) ==
    LET stored == Items(expected)
        changed == (stored \ Items(computed)) \cup (Items(computed) \ stored)
        names == {item[1] : item \in changed}
    IN [expected |-> [n \in names |-> dict_get(expected, n)],
        actual |-> [n \in names |-> dict_get(computed, n)]]

(***************************************************************************)
(* SpecHash: two schema snapshots "A" and "B" in a registry; get_hashes,   *)
(* then test_hashes against a stored baseline.                             *)
(***************************************************************************)
EmptyDict == [n \in {} |-> NoneV]
IntegerF == Field(IntegerT, FALSE, UnspecifiedDefault)
StringF == Field(StringT, FALSE, UnspecifiedDefault)
FieldX == <<"x">>
FieldY == <<"y">>
Version10 == <<"1", ".", "0">>
Version11 == <<"1", ".", "1">>

DeclaredFields ==
    {IntegerF,
     Field(ListT(IntegerF), FALSE, UnspecifiedDefault),
     Field(ListT(StringF), FALSE, UnspecifiedDefault),
     Field(ObjectT(<<"A">>), FALSE, UnspecifiedDefault),
     Field(ObjectT(<<"B">>), FALSE, UnspecifiedDefault)}

FieldSchemas ==
    {EmptyDict}
      \cup [{FieldX} -> DeclaredFields]
      \cup [{FieldY} -> DeclaredFields]
      \cup {[n \in {FieldX, FieldY} |-> IF n = FieldX THEN f ELSE IntegerF] :
              f \in DeclaredFields}

MethodM == <<"m">>
MethodSets ==
    {EmptyDict,
     [n \in {MethodM} |-> [remotable |-> TRUE, args |-> <<<<"s", "e", "l",
         "f">>>>]],
     [n \in {MethodM} |->
        [remotable |-> TRUE, args |-> <<<<"s", "e", "l", "f">>, <<"c", "o",
            "n", "t", "e", "x", "t">>>>]],
     [n \in {MethodM} |-> [remotable |-> FALSE, args |-> <<<<"s", "e", "l",
         "f">>>>]]}

\* hasattr(obj_class, 'child_versions') and, if so, the mapping
ChildVersionMaps ==
    {[hasattr |-> FALSE, items |-> EmptyDict],
     [hasattr |-> TRUE, items |-> [v \in {Version10} |-> Version10]]}

Snapshots ==
    [VERSION : {Version10, Version11}, fields : FieldSchemas,
     methods : MethodSets, child_versions : ChildVersionMaps]

\* how many of the four parts of two snapshots differ
Differences(a, b) ==
    (IF a.VERSION = b.VERSION THEN 0 ELSE 1)
      + (IF a.fields = b.fields THEN 0 ELSE 1)
      + (IF a.methods = b.methods THEN 0 ELSE 1)
      + (IF a.child_versions = b.child_versions THEN 0 ELSE 1)

StaleFingerprint == Version10 \o <<"-">> \o <<"o", "l", "d">>
BaselineNames == {"A", "B", "Z"}

\* the baselines a repository may hold for a registry: per schema name no
\* entry, the current fingerprint or an outdated one
Baselines(classes) ==
    LET current == get_hashes(classes)
    IN UNION {
         {b \in [S -> {StaleFingerprint} \cup Range(current)] :
            \A n \in S : b[n] = StaleFingerprint
                           \/ (n \in DOMAIN current /\ b[n] = current[n])}
         : S \in SUBSET BaselineNames}

\* the registries: snapshot "B" is "A" with at most one part changed
Registered ==
    UNION {{[n \in {"A", "B"} |-> IF n = "A" THEN a ELSE b] :
              b \in {s \in Snapshots : Differences(a, s) <= 1}} :
           a \in Snapshots}

HashInit ==
    /\ DepIdle /\ FldIdle /\ CollIdle /\ TypeIdle /\ RelIdle
    /\ obj_classes \in Registered
    /\ expected_hashes = <<>>
    /\ fingerprints = <<>>
    /\ hash_report = <<>>
    /\ hpc = "new"

\* fingerprints = checker.get_hashes()
GetHashes ==
    /\ hpc = "new"
    /\ fingerprints' = get_hashes(obj_classes)
    /\ hpc' = "hashed"
    /\ UNCHANGED <<obj_classes, expected_hashes, hash_report>>
    /\ UNCHANGED nonHashVars

TestHashesReturn(expected, computed) ==
    /\ expected_hashes' = expected
    /\ fingerprints' = computed
    /\ hash_report' = test_hashes(expected, computed)
    /\ hpc' = "tested"
    /\ UNCHANGED obj_classes
    /\ UNCHANGED nonHashVars

\* expected, actual = checker.test_hashes(expected_hashes)
TestHashes ==
    /\ hpc = "hashed"
    /\ \E expected \in Baselines(obj_classes) :
          TestHashesReturn(expected, get_hashes(obj_classes))

HashNext ==
    \/ GetHashes
    \/ TestHashes

SpecHash == HashInit /\ [][HashNext]_vars


\* the part of a reported fingerprint behind '<VERSION>-'
DigestOf(n) == From(fingerprints[n], Len(obj_classes[n].VERSION) + 2)

\* what the digest is said to depend on
SameDigestInput(a, b) ==
    /\ a.fields = b.fields
    /\ RemotableMethods(a) = RemotableMethods(b)
    /\ a.child_versions = b.child_versions

C12_FieldChangeDetected ==
    (/\ hpc # "new"
     /\ obj_classes["A"].VERSION = obj_classes["B"].VERSION
     /\ obj_classes["A"].methods = obj_classes["B"].methods
     /\ obj_classes["A"].child_versions = obj_classes["B"].child_versions
     /\ obj_classes["A"].fields # obj_classes["B"].fields)
        => fingerprints["A"] # fingerprints["B"]

\* the names whose (name, fingerprint) pair is in only one of baseline and
\* computed fingerprints
Differing ==
    {n \in DOMAIN expected_hashes \cup DOMAIN fingerprints :
        \/ n \notin DOMAIN expected_hashes
        \/ n \notin DOMAIN fingerprints
        \/ expected_hashes[n] # fingerprints[n]}

\* C13: test_hashes returns two mappings with the same keys, the names whose
\* (name, fingerprint) pair differs between baseline and computed
\* fingerprints; expected[name] is the baseline value and actual[name] the
\* computed one, None where absent; both are empty iff the baseline equals
\* the computed fingerprints.
C13_ReportIsTheDifference ==
    hpc = "tested" =>
        /\ DOMAIN hash_report.expected = Differing
        /\ DOMAIN hash_report.actual = Differing
        /\ \A n \in Differing :
              /\ hash_report.expected[n] =
                   (IF n \in DOMAIN expected_hashes
                    THEN StrV(expected_hashes[n]) ELSE NoneV)
              /\ hash_report.actual[n] =
                   (IF n \in DOMAIN fingerprints
                    THEN StrV(fingerprints[n]) ELSE NoneV)
        /\ (DOMAIN hash_report.expected = {}
              /\ DOMAIN hash_report.actual = {})
             <=> (/\ DOMAIN expected_hashes = DOMAIN fingerprints
                  /\ \A n \in DOMAIN fingerprints :
                        expected_hashes[n] = fingerprints[n])

\* a baseline with a changed entry, an entry of a schema that is gone and no
\* entry for a schema of the registry
C13_Witness ==
    /\ hpc = "tested"
    /\ DOMAIN expected_hashes = {"A", "Z"}
    /\ expected_hashes["A"] # fingerprints["A"]
    /\ DOMAIN hash_report.expected = {"A", "B", "Z"}
    /\ hash_report.actual["Z"] = NoneV
    /\ hash_report.expected["B"] = NoneV


(***************************************************************************)
(* ObjectVersionChecker.test_relationships_in_order (fixture.py)           *)
(***************************************************************************)
MaxRelationships == 3

\* text.split('.')
RECURSIVE split_dot(_, _)
split_dot(text, part) ==
    IF text = <<>> THEN <<part>>
    ELSE IF Head(text) = "." THEN <<part>> \o split_dot(Tail(text), <<>>)
    ELSE split_dot(Tail(text), Append(part, Head(text)))

\* oslo_utils.versionutils.convert_version_to_tuple of 'x.y' text
convert_version_to_tuple(version_str) ==
    LET parts == split_dot(version_str, <<>>)
    IN [i \in DOMAIN parts |-> ParseDecimal(parts[i])]

\* a < b and a <= b of tuples of ints
RECURSIVE TupleLess(_, _)
TupleLess(a, b) ==
    IF b = <<>> THEN FALSE
    ELSE IF a = <<>> THEN TRUE
    ELSE IF a[1] = b[1] THEN TupleLess(Tail(a), Tail(b))
    ELSE a[1] < b[1]

TupleLessEq(a, b) == a = b \/ TupleLess(a, b)

\* the AssertionError of _test_relationships_in_order
OutOfOrder(obj_name, my_version, child_version, field) ==
    [ok |-> FALSE,
     val |-> [exc |-> "AssertionError",
              msg |-> "Object %s relationship %s->%s for field %s is out of order",
              args |-> <<obj_name, my_version, child_version, field>>]]

\* the versions of one field, from entry i on
RECURSIVE InOrder(_, _, _, _, _, _)
\* the assert that holds for any entry
Entry_NoAssert(obj_name, field, versions, i, last_my_version, last_child_version, my_version, ch_version) ==
    InOrder(obj_name, field, versions, i + 1, my_version, ch_version)

\* one pass of the inner loop: the assert, then last_* are replaced
Entry(obj_name, field, versions, i, last_my_version, last_child_version, my_version, ch_version) ==
    IF ~(/\ TupleLess(last_my_version, my_version)
         /\ TupleLessEq(last_child_version, ch_version))
    THEN OutOfOrder(obj_name, versions[i][1], versions[i][2], field)
    ELSE InOrder(obj_name, field, versions, i + 1, my_version, ch_version)

InOrder(obj_name, field, versions, i, last_my_version, last_child_version) ==
    IF i > Len(versions) THEN Ok(NoneV)
    ELSE Entry(obj_name, field, versions, i, last_my_version,
               last_child_version,
               convert_version_to_tuple(versions[i][1]),
               convert_version_to_tuple(versions[i][2]))

\* the first failure of a sequence of outcomes, None if there is none
RECURSIVE FirstRaised(_)
FirstRaised(outcomes) ==
    IF outcomes = <<>> THEN Ok(NoneV)
    ELSE IF ~Head(outcomes).ok THEN Head(outcomes)
    ELSE FirstRaised(Tail(outcomes))

\* ObjectVersionChecker._test_relationships_in_order, the items of
\* obj_relationships iterated in the order fields
test_relationships_in_order_class(obj_name, relationships, fields) ==
    FirstRaised([f \in DOMAIN fields |->
        InOrder(obj_name, fields[f], relationships[fields[f]], 1,
                <<0, 0>>, <<0, 0>>)])

\* ObjectVersionChecker.test_relationships_in_order, obj_classes iterated in
\* the order names and each obj_relationships in the order fields[name]
test_relationships_in_order(classes, names, fields) ==
    FirstRaised([n \in DOMAIN names |->
        test_relationships_in_order_class(names[n], classes[names[n]],
                                          fields[names[n]])])

\* the orders in which a dict may hand out its keys
Orders(S) == {order \in [1..Cardinality(S) -> S] : Range(order) = S}

(***************************************************************************)
(* SpecRel: a registry of two schemas with declared relationships, and one *)
(* call of test_relationships_in_order.                                    *)
(***************************************************************************)
Version00 == <<"0", ".", "0">>
Version12 == <<"1", ".", "2">>
Version110 == <<"1", ".", "1", "0">>
FieldF == <<"f">>
FieldG == <<"g">>

RelationshipEntries ==
    {Version00, Version10, Version12, Version110} \X {Version10, Version11}

RelationshipSeqs ==
    UNION {[1..n -> RelationshipEntries] : n \in 0..MaxRelationships}

DeclaredSeqs ==
    {<<<<Version10, Version10>>>>,
     <<<<Version12, Version11>>, <<Version10, Version11>>>>}

RelInit ==
    /\ DepIdle /\ FldIdle /\ CollIdle /\ TypeIdle /\ HashIdle
    /\ obj_relationships \in
         {[n \in {"A", "B"} |->
             IF n = "A"
             THEN [f \in {FieldF, FieldG} |-> IF f = FieldF THEN s ELSE g]
             ELSE [f \in {FieldF} |-> b]] :
            s \in RelationshipSeqs, g \in DeclaredSeqs, b \in DeclaredSeqs}
    /\ rel_result = <<>>
    /\ rpc = "new"

TestRelationshipsInOrderDone(r) ==
    /\ rel_result' = r
    /\ rpc' = "done"
    /\ UNCHANGED obj_relationships
    /\ UNCHANGED nonRelVars

\* checker.test_relationships_in_order()
TestRelationshipsInOrder ==
    /\ rpc = "new"
    /\ \E names \in Orders(DOMAIN obj_relationships) :
       \E fields \in [DOMAIN obj_relationships ->
                        UNION {Orders(DOMAIN obj_relationships[n]) :
                                 n \in DOMAIN obj_relationships}] :
          /\ \A n \in DOMAIN obj_relationships :
                fields[n] \in Orders(DOMAIN obj_relationships[n])
          /\ TestRelationshipsInOrderDone(
                 test_relationships_in_order(obj_relationships, names,
                                             fields))

RelNext == TestRelationshipsInOrder

SpecRel == RelInit /\ [][RelNext]_vars

\* every field's sequence as the claim reads it: each entry against the one
\* before it
ConsecutiveInOrder(versions) ==
    \A i \in 1..(Len(versions) - 1) :
        /\ TupleLess(convert_version_to_tuple(versions[i][1]),
                     convert_version_to_tuple(versions[i + 1][1]))
        /\ TupleLessEq(convert_version_to_tuple(versions[i][2]),
                       convert_version_to_tuple(versions[i + 1][2]))

AllConsecutiveInOrder ==
    \A n \in DOMAIN obj_relationships :
        \A f \in DOMAIN obj_relationships[n] :
            ConsecutiveInOrder(obj_relationships[n][f])

\* C14: test_relationships_in_order accepts iff in every relationship
\* sequence every two consecutive entries have a strictly increasing owner
\* version and a non-decreasing child version, versions compared as numeric
\* tuples; a sequence of one entry is accepted.
C14_AcceptsIffConsecutiveInOrder ==
    rpc = "done" => (rel_result.ok <=> AllConsecutiveInOrder)

\* the entry a raised error names stands in a declared sequence and is out
\* of order against the entry before it, or against (0, 0) if it is the first
NamesOffendingEntry(args) ==
    /\ args[1] \in DOMAIN obj_relationships
    /\ args[4] \in DOMAIN obj_relationships[args[1]]
    /\ LET versions == obj_relationships[args[1]][args[4]]
       IN \E i \in DOMAIN versions :
            /\ versions[i] = <<args[2], args[3]>>
            /\ LET before == IF i = 1 THEN <<<<"0", ".", "0">>, <<"0", ".",
                "0">>>> ELSE versions[i - 1]
               IN ~(/\ TupleLess(convert_version_to_tuple(before[1]),
                                 convert_version_to_tuple(args[2]))
                    /\ TupleLessEq(convert_version_to_tuple(before[2]),
                                   convert_version_to_tuple(args[3])))

\* C15 as stated: a relationship-ordering violation is handed back as
\* data, never raised.
C15_ViolationsReturned ==
    rpc = "done" => rel_result.ok

\* C15: test_relationships_in_order hands back no report: it returns None
\* when nothing is out of order, and on a registry with a sequence that is
\* not monotonic it raises an AssertionError that names the schema, the
\* owner and child version and the field of an offending entry.
C15_ViolationsRaised ==
    rpc = "done" =>
        /\ rel_result.ok => rel_result.val = NoneV
        /\ ~AllConsecutiveInOrder => ~rel_result.ok
        /\ ~rel_result.ok =>
              /\ rel_result.val.exc = "AssertionError"
              /\ NamesOffendingEntry(rel_result.val.args)

C15_Witness ==
    /\ rpc = "done"
    /\ ~rel_result.ok
    /\ rel_result.val.args = <<"A", Version12, Version10, FieldF>>
    /\ Len(obj_relationships["A"][FieldF]) = MaxRelationships


(***************************************************************************)
(* Claims about the errors and the DateTime values of SpecTypes            *)
(***************************************************************************)
\* the attribute an error names is the one given to coerce, or an element of
\* it
NamesAttribute(attr) == attr = AttrFoo \/ HasPrefix(attr, AttrFoo)

\* C16: whenever coerce(context, name, value) of a field type fails, the
\* error names the attribute that was passed in and the actual type of the
\* value; no failure is reported without the attribute name.
C16_FailureNamesAttribute ==
    (ty_pc = "coerced" /\ ~ty_coerced.ok) =>
        /\ NamesAttribute(ty_coerced.val.attr)
        /\ ty_coerced.val.actual # ""

\* what timeutils.parse_isotime makes of the primitive
ParsedPrimitive == parse_isotime(ty_primitive)

\* C20: a value returned by DateTime.coerce or DateTime.from_primitive has
\* an offset iff the field is timezone-aware: an aware field gives a naive
\* input the offset UTC and keeps its wall-clock reading, and returns an
\* input with an offset unchanged; a naive field strips the offset;
\* from_primitive returns what coerce makes of the parsed text; an input
\* that is neither text nor a datetime fails.
C20_OffsetIffTimezoneAware ==
    (ty_type.cls = "DateTime" /\ ty_pc \in {"coerced", "primitive", "concrete"})
    =>
        /\ ty_value.k \notin {"str", "datetime"} => ~ty_coerced.ok
        /\ ty_coerced.ok =>
              /\ ty_coerced.val.k = "datetime"
              /\ ty_coerced.val.v.aware = ty_type.p
        /\ (ty_value.k = "datetime" /\ ty_type.p /\ ~ty_value.v.aware) =>
              /\ ty_coerced.ok
              /\ Same(ty_coerced.val, DateTimeV(ty_value.v.sec, TRUE, 0))
        /\ (ty_value.k = "datetime" /\ ty_type.p /\ ty_value.v.aware) =>
              ty_coerced.ok /\ Same(ty_coerced.val, ty_value)
        /\ (ty_value.k = "datetime" /\ ~ty_type.p) =>
              /\ ty_coerced.ok
              /\ Same(ty_coerced.val, DateTimeV(ty_value.v.sec, FALSE, 0))
        /\ ty_pc = "concrete" =>
              /\ ty_concrete.ok =>
                    /\ ty_concrete.val.k = "datetime"
                    /\ ty_concrete.val.v.aware = ty_type.p
              /\ ParsedPrimitive.ok =>
                    /\ ty_concrete.ok
                    /\ Same(ty_concrete.val,
                            DateTime_coerce(ty_type, AttrFoo,
                                            ParsedPrimitive.val).val)

\* a datetime with an offset went into a timezone-naive field and came back
\* from its primitive form
C20_Witness ==
    /\ ty_type.cls = "DateTime" /\ ~ty_type.p
    /\ ty_pc = "concrete"
    /\ ty_value.k = "datetime" /\ ty_value.v.aware /\ ty_value.v.off # 0
    /\ ty_concrete.ok /\ ~ty_concrete.val.v.aware


(***************************************************************************)
(* Claims about the attribute names, the key check and the containers      *)
(* without an element type of SpecColl                                     *)
(***************************************************************************)
\* entry i of the last call is refused: its key is no text (a dict) or its
\* element does not coerce
Offends(i) ==
    \/ c_kind = "CoercedDict" /\ c_op.at[i].k # "str"
    \/ ~ElemOK(c_op.elems[i])

\* the entry that ends the call: the first one refused
IsFirstOffender(i) ==
    Offends(i) /\ \A j \in DOMAIN c_op.elems : j < i => ~Offends(j)

\* the list index at which element i of the last call is stored if the call
\* succeeds
StoredIndex(i) ==
    CASE c_op.name \in {"append", "extend", "iadd"} -> Len(c_prev) + i - 1
      [] c_op.name = "insert" ->
           IF c_op.at.v < 0 THEN Max(c_op.at.v + Len(c_prev), 0)
                            ELSE Min(c_op.at.v, Len(c_prev))
      [] c_op.name = "setitem" ->
           IF c_op.at.v < 0 THEN c_op.at.v + Len(c_prev) ELSE c_op.at.v
      [] c_op.name \in {"setitem_slice", "setslice"} ->
           SliceStart(c_op.at, Len(c_prev)) + (i - 1) * SliceStep(c_op.at)

\* the call can succeed with elements that coerce
CanSucceed ==
    c_op.name = "setitem" =>
        (c_op.at.v >= 0 - Len(c_prev) /\ c_op.at.v < Len(c_prev))

\* C17: the attribute name given to the element Field's coerce is
\* '<field>[<k>]', k the list index or the dict key at which the element is
\* stored when the call succeeds. The name shows in the error of an element
\* that is refused with an error that names its attribute.
C17_NameIsWhereStored ==
    (/\ c_kind \in {"CoercedList", "CoercedDict"}
     /\ c_self.coercing /\ c_op.name # "none" /\ ~c_op.ok
     /\ c_op.val.attr # <<>>)
    => \A i \in DOMAIN c_op.elems : IsFirstOffender(i) =>
          IF c_kind = "CoercedDict"
          THEN c_op.val.attr = AttrFoo \o <<"[">> \o c_op.at[i].v \o <<"]">>
          ELSE CanSucceed =>
                 c_op.val.attr =
                   AttrFoo \o <<"[">> \o Decimal(StoredIndex(i)) \o <<"]">>

\* C18: in CoercedDict set-item, update and setdefault the key is checked
\* before the element is coerced: the first entry that is refused ends the
\* call, with KeyTypeError if its key is not text, also when its element does
\* not coerce either, and with the error of the element Field's coerce if its
\* key is text.
C18_KeyCheckedFirst ==
    (c_kind = "CoercedDict" /\ c_op.name # "none") =>
        /\ c_op.ok <=> \A i \in DOMAIN c_op.elems : ~Offends(i)
        /\ \A i \in DOMAIN c_op.elems : IsFirstOffender(i) =>
              IF c_op.at[i].k # "str"
              THEN c_op.val.exc = "KeyTypeError"
              ELSE /\ c_op.val.exc # "KeyTypeError"
                   /\ c_op.val =
                        Field_coerce(c_self.element_type,
                                     KeyAttName(c_self, c_op.at[i]),
                                     c_op.elems[i]).val

\* an update whose first entry is taken and whose second entry has a key
\* that is no text and an element that does not coerce
C18_Witness ==
    /\ c_kind = "CoercedDict" /\ c_self.coercing
    /\ c_op.name = "update" /\ Len(c_op.elems) = 2
    /\ ~Offends(1)
    /\ c_op.at[2].k # "str" /\ ~ElemOK(c_op.elems[2])
    /\ ~c_op.ok /\ c_op.val.exc = "KeyTypeError"

\* C19: a CoercedList, CoercedDict or CoercedSet that enable_coercing was
\* never called on is a plain container: a call raises only what the plain
\* list, dict or set raises and leaves the contents the plain container
\* would have.
C19_PassThrough ==
    (~c_self.coercing /\ c_op.name # "none") =>
        /\ c_op.ok => PlainEffect
        /\ ~c_op.ok =>
              /\ c_kind = "CoercedList"
              /\ c_op.name \in {"setitem", "setitem_slice"}
              /\ c_op.val.exc \in PlainErrors


(***************************************************************************)
(* CoercedDict.setdefault on a key that is present (SpecColl)              *)
(***************************************************************************)
\* C23: CoercedDict.setdefault(key, default) on a key that is present
\* returns the stored value, leaves the mapping as it is and raises no
\* error, whatever default is; on an absent text key it stores and returns
\* the coerced default.
C23_SetDefaultOnPresentKey ==
    (c_kind = "CoercedDict" /\ c_self.coercing /\ c_op.name = "setdefault")
    => IF c_op.at[1] \in DOMAIN c_prev
       THEN /\ c_op.ok
            /\ Same(c_op.val, c_prev[c_op.at[1]])
            /\ c_self.items = c_prev
       ELSE (c_op.at[1].k = "str" /\ ElemOK(c_op.elems[1])) =>
               /\ c_op.ok
               /\ Same(c_op.val, CoercedOf(c_op.elems[1]))
               /\ c_self.items = DictPut(c_prev, c_op.at[1], c_op.val)


(***************************************************************************)
(* The dependency tree of a registry without a cycle (SpecDep)             *)
(***************************************************************************)
\* the schema names the ObjectReference fields of schema n point to
Targets(n) ==
    {obj_fields[n][i].obj_name :
        i \in {j \in DOMAIN obj_fields[n] : IsObjectType(obj_fields[n][j])}}

\* the schemas reached from the set S over at most k references
RECURSIVE ReachedWithin(_, _)
ReachedWithin(S, k) ==
    IF k = 0 THEN S
    ELSE ReachedWithin(S \cup UNION {Targets(m) : m \in S}, k - 1)

\* no schema reaches itself over its ObjectReference fields
Acyclic ==
    \A n \in ObjNames :
        n \notin ReachedWithin(Targets(n), Cardinality(ObjNames))

\* C22: on a registry whose ObjectReference fields form no cycle,
\* get_dependency_tree returns, in whatever order it visits the schemas, the
\* mapping whose keys are the schemas with at least one ObjectReference field
\* and whose entry tree[S] maps the targets of S's ObjectReference fields, and
\* nothing else, to the VERSION of the schema referenced.
C22_TreeOfAcyclicRegistry ==
    Acyclic =>
        /\ dpc # "RecursionError"
        /\ dpc = "done" =>
              /\ DOMAIN tree = {n \in ObjNames : Targets(n) # {}}
              /\ \A n \in DOMAIN tree :
                    /\ DOMAIN tree[n] = Targets(n)
                    /\ \A s \in Targets(n) : tree[n][s] = VERSION(s)

\* a finished tree that holds a schema with two targets, in a registry
\* that also has a field that is no reference
C22_Witness ==
    /\ Acyclic /\ dpc = "done"
    /\ \E n \in ObjNames :
          /\ Cardinality(Targets(n)) = 2
          /\ Len(obj_fields[n]) = 2
          /\ n \in DOMAIN tree
    /\ \E n \in ObjNames :
          \E i \in DOMAIN obj_fields[n] : ~IsObjectType(obj_fields[n][i])


(***************************************************************************)
(* fields.Object.coerce                                                    *)
(***************************************************************************)
\* classes in the mro of a candidate
MaxMro == 3

\* Object.__init__ with subclasses given
ObjectTypeT(obj_name, subclasses) ==
    [cls |-> "Object", p |-> [obj_name |-> obj_name, subclasses |-> subclasses]]

\* a class as Object.coerce sees it: hasattr(cls, "obj_name") and what
\* cls.obj_name() returns; an instance is known by the mro of its class
ClassV(hasattr, obj_name) == [hasattr |-> hasattr, obj_name |-> obj_name]
InstanceV(mro) == [k |-> "object", v |-> mro]

\* value.__class__.mro(); the classes of the built-in values have no obj_name
Mro(value) ==
    IF value.k = "object" THEN value.v ELSE <<ClassV(FALSE, <<>>)>>

\* try: obj_name = value.obj_name() / except AttributeError: obj_name = ""
value_obj_name(value) ==
    IF Mro(value)[1].hasattr THEN Mro(value)[1].obj_name ELSE <<>>

\* Object._get_all_obj_names, from class i of the mro on
RECURSIVE get_all_obj_names(_, _)
get_all_obj_names(mro, i) ==
    IF i > Len(mro) THEN <<>>
    ELSE IF ~mro[i].hasattr THEN get_all_obj_names(mro, i + 1)
    ELSE <<mro[i].obj_name>> \o get_all_obj_names(mro, i + 1)

\* Object.coerce
Object_coerce(type, attr, value) ==
    IF type.p.obj_name \notin
         Range(IF type.p.subclasses THEN get_all_obj_names(Mro(value), 1)
                                    ELSE <<value_obj_name(value)>>)
    THEN [ok |-> FALSE,
          val |-> [exc |-> "ValueError",
                   msg |-> "An object of type %(type)s is required in field %(attr)s, not a %(valtype)s",
                   type |-> type.p.obj_name, attr |-> attr,
                   valtype |-> value_obj_name(value)]]
    ELSE Ok(value)

(***************************************************************************)
(* SpecObject: one Object type and one candidate given to its coerce.      *)
(***************************************************************************)
ObjectTypes ==
    {ObjectTypeT(obj_name, subclasses) :
        obj_name \in {<<>>, <<"A">>, <<"B">>}, subclasses \in BOOLEAN}

CandidateClasses ==
    {ClassV(TRUE, <<"A">>), ClassV(TRUE, <<"B">>), ClassV(FALSE, <<>>)}

\* instances of classes with their ancestors (a class has the attributes of
\* its ancestors), and a value that is no object
Candidates ==
    {InstanceV(mro) :
        mro \in {m \in UNION {[1..n -> CandidateClasses] : n \in 1..MaxMro} :
                    (\E i \in DOMAIN m : m[i].hasattr) => m[1].hasattr}}
      \cup {IntV(1)}

ObjInit ==
    /\ DepIdle /\ FldIdle /\ CollIdle /\ HashIdle /\ RelIdle
    /\ ty_pc = "new"
    /\ ty_type \in ObjectTypes
    /\ ty_value = NoneV
    /\ ty_coerced = Ok(NoneV)
    /\ ty_primitive = NoneV
    /\ ty_concrete = Ok(NoneV)

\* field_type.coerce(obj, 'foo', value)
ObjectCoerce ==
    /\ ty_pc = "new"
    /\ \E value \in Candidates :
         /\ ty_value' = value
         /\ ty_coerced' = Object_coerce(ty_type, AttrFoo, value)
    /\ ty_pc' = "coerced"
    /\ UNCHANGED <<ty_type, ty_primitive, ty_concrete>>
    /\ UNCHANGED nonTypeVars

ObjNext == ObjectCoerce

SpecObject == ObjInit /\ [][ObjNext]_vars

\* the candidate declares a schema name, and the names its ancestor chain
\* declares
DeclaresName(value) == Mro(value)[1].hasattr
AncestorNames(value) ==
    {Mro(value)[i].obj_name :
        i \in {j \in DOMAIN Mro(value) : Mro(value)[j].hasattr}}

\* the candidate is one the claim has accepted
IsAccepted ==
    IF ty_type.p.subclasses
    THEN ty_type.p.obj_name \in AncestorNames(ty_value)
    ELSE DeclaresName(ty_value)
           /\ Mro(ty_value)[1].obj_name = ty_type.p.obj_name

\* C21: Object.coerce with expected schema name N returns the candidate
\* unchanged iff, without subclass acceptance, the candidate's own declared
\* schema name is N or, with it, N is the schema name of a class in the
\* candidate's ancestor chain; in every other case, also for a candidate
\* that declares no schema name, it fails with the error that names N and
\* the attribute.
C21_AcceptsDeclaredName ==
    ty_pc = "coerced" =>
        /\ IsAccepted => (ty_coerced.ok /\ Same(ty_coerced.val, ty_value))
        /\ ~IsAccepted =>
              /\ ~ty_coerced.ok
              /\ ty_coerced.val.exc = "ValueError"
              /\ ty_coerced.val.type = ty_type.p.obj_name
              /\ ty_coerced.val.attr = AttrFoo

\* the same for every expected name that is not empty
C21_NamedSchema ==
    ty_type.p.obj_name # <<>> => C21_AcceptsDeclaredName


=============================================================================
